---- MODULE Spec2Model ----
(***************************************************************************)
(* Model of the probestation wafer scan: the producer and starter threads  *)
(* of MainWindow, the GUI thread's start/abort handlers of ManagedWindow,  *)
(* the stage thread of StageStack, the screening (pretest) Worker threads  *)
(* and the Manager that runs the submitted full tests.                     *)
(*                                                                         *)
(* Every thread is a program counter plus the shared objects it touches;   *)
(* one action is one step between two accesses of shared state.  Signals   *)
(* that cross threads are entries of the receiving thread's event queue    *)
(* (Qt queued connections): guiQueue for the window, stageQueue for the    *)
(* StageStack.                                                             *)
(***************************************************************************)
EXTENDS Integers, Sequences, FiniteSets, TLC

(***************************************************************************)
(* Bounds of the model.                                                    *)
(***************************************************************************)
\* largest steps and microsteps of the positions the coordinate methods are
\* tried on
MaxCoarse == 2
MaxFine == 520
\* largest number of chips / devices per direction in the small grids
MaxDim == 2
\* largest number of devices of a small grid
MaxDevices == 4
\* number of device rows of the one long grid (more devices than the queue holds)
LongRows == 11
\* number of disturbances in one behaviour: a click on 'Abort all', a press
\* of the Escape key, a join that returns by timeout, a failing
\* os.makedirs, a scan after the first one
MaxEvents == 2
\* the disturbances happen in scans of one column of at most this many devices
MaxDisturbedRows == 2

\* the grids of the progress computation on its own: chips per column and
\* row, device columns and device rows of a chip
MaxProgChips == 2
MaxProgCols == 5
MaxProgRows == 10
\* the movement vectors are computed for every number of chips per direction
\* in 0..MaxDeltaChips and of devices per chip and direction in
\* 0..MaxDeltaDevs
MaxDeltaChips == 1
MaxDeltaDevs == 11
\* in manual control the user gives at most MaxInputs inputs (keys, clicks)
\* before the window is closed
MaxInputs == 3

(***************************************************************************)
(* Program constants.                                                      *)
(***************************************************************************)
\* Queue(maxsize=10)
PipelineMaxsize == 10
\* boundary of the x and y axes, in steps
XYLimit == 14600
\* upper boundary of the z axis, in steps
ZLimit == 156000
\* microsteps per step
Microsteps == 256
\* the speed bit of _movement_flag
SpeedBit == 16
\* lowest safe height, and the clearance below the lowest calibrated device
MinSafeHeight == 500
SafeClearance == 20000

\* the stored coordinates StageStack starts with
coordinates_center == <<<<0, 0>>, <<0, 0>>, <<500, 0>>>>
InitCalibration ==
    [dev_00 |-> <<<<-8000, 0>>, <<-10000, 0>>, <<5000, 0>>>>,
     dev_i0 |-> <<<<8000, 0>>, <<-11000, 0>>, <<4500, 0>>>>,
     dev_0j |-> <<<<-7500, 0>>, <<10000, 0>>, <<5500, 0>>>>]

(***************************************************************************)
(* Arithmetic helpers.                                                     *)
(***************************************************************************)
Abs(n) == IF n < 0 THEN -n ELSE n

Min2(a, b) == IF a < b THEN a ELSE b

\* int(a / b) of Python for b # 0: the quotient truncated toward zero
TruncDiv(a, b) ==
    IF (a >= 0) = (b > 0) THEN Abs(a) \div Abs(b) ELSE -(Abs(a) \div Abs(b))

(***************************************************************************)
(* StageStack: the coordinate transform.  A position is a triple (x, y, z) *)
(* of pairs <<steps, microsteps>>.                                         *)
(***************************************************************************)
RECURSIVE CarryDown(_, _)
\* while coords[n][1] > 255: coords[n][0] += 1; coords[n][1] -= 256
CarryDown(c, f) == IF f > Microsteps - 1 THEN CarryDown(c + 1, f - Microsteps) ELSE <<c, f>>

RECURSIVE CarryUp(_, _)
\* while coords[n][1] < -255: coords[n][0] -= 1; coords[n][1] += 256
CarryUp(c, f) == IF f < -(Microsteps - 1) THEN CarryUp(c - 1, f + Microsteps) ELSE <<c, f>>

\* the two sign corrections at the end of coordinates_cleanup, in code order
SignFix(p) ==
    LET q == IF p[1] < 0 /\ p[2] > 0 THEN <<p[1] + 1, -Microsteps + p[2]>> ELSE p
    IN  IF q[1] > 0 /\ q[2] < 0 THEN <<q[1] - 1, Microsteps - q[2]>> ELSE q

\* coordinates_cleanup on one axis
cleanup_axis(p) ==
    LET a == CarryDown(p[1], p[2])
        b == CarryUp(a[1], a[2])
    IN  SignFix(b)

coordinates_cleanup(coords) == [n \in 1..3 |-> cleanup_axis(coords[n])]

\* coords_boudary_check that raises at the boundary values too
coords_boudary_check_inclusive(coords) ==
    \/ Abs(coords[1][1]) >= XYLimit
    \/ Abs(coords[2][1]) >= XYLimit
    \/ coords[3][1] <= 0
    \/ coords[3][1] >= ZLimit

\* coords_boudary_check without the test of the x axis
coords_boudary_check_no_x(coords) ==
    \/ Abs(coords[2][1]) > XYLimit
    \/ coords[3][1] < 0
    \/ coords[3][1] > ZLimit

\* coords_boudary_check: TRUE when the code raises
coords_boudary_check(coords) ==
    \/ Abs(coords[1][1]) > XYLimit
    \/ Abs(coords[2][1]) > XYLimit
    \/ coords[3][1] < 0
    \/ coords[3][1] > ZLimit

\* the division in calc_coordinates_delta_hor / _vert raises ZeroDivisionError
delta_raises(many, few) ==
    (many > 1 \/ few > 1) /\ 10 * (many - 1) + (few - 1) = 0

\* the common body of calc_coordinates_delta_hor / _vert
calc_delta(dev00, far, many, few) ==
    LET den == 10 * (many - 1) + (few - 1)
        tmp == IF many > 1 \/ few > 1
               THEN [n \in 1..3 |->
                       <<TruncDiv(far[n][1] - dev00[n][1], den),
                         TruncDiv(far[n][2] - dev00[n][2], den)>>]
               ELSE [n \in 1..3 |-> <<0, 0>>]
    IN  coordinates_cleanup(tmp)

calc_coordinates_delta_hor(cal, chipcols, devcols) ==
    calc_delta(cal.dev_00, cal.dev_i0, chipcols, devcols)

calc_coordinates_delta_vert(cal, chiprows, devrows) ==
    calc_delta(cal.dev_00, cal.dev_0j, chiprows, devrows)

\* calc_dev_coordinates before its boundary check
calc_dev_coordinates(cal, dh, dv, chipcol, chiprow, devcol, devrow) ==
    coordinates_cleanup(
        [n \in 1..3 |->
            <<cal.dev_00[n][1] + (10 * chipcol + devcol) * dh[n][1]
                               + (10 * chiprow + devrow) * dv[n][1],
              cal.dev_00[n][2] + (10 * chipcol + devcol) * dh[n][2]
                               + (10 * chiprow + devrow) * dv[n][2]>>])

\* _calc_new_safe_height
calc_new_safe_height(cal) ==
    LET h == Min2(cal.dev_00[3][1], Min2(cal.dev_i0[3][1], cal.dev_0j[3][1])) - SafeClearance
    IN  IF h < MinSafeHeight THEN MinSafeHeight ELSE h

(***************************************************************************)
(* State.                                                                  *)
(***************************************************************************)
VARIABLES
    \* the grid the user entered: <<chipcols, chiprows, devcols, devrows>>
    grid,
    \* StageStack.motorsOk: all three axes were identified
    motorsOk,
    \* threading.Event objects of the window
    event_abort, producer_done, starter_done,
    current_device_passed_pretest, has_no_measurement,
    \* MainWindow.pipeline, the Queue between producer and starter
    pipeline,
    \* producer thread: position, loop variables, return value
    ppc, ploop, presult,
    \* starter thread: position, the procdir it works on, last progress emitted
    spc, procdir, progress,
    \* stage thread: position, pending slot calls, argument of goto_coords
    stpc, stageQueue, gotoCoords,
    \* StageStack: events, flags, hardware and stored coordinates
    stage_not_moving, stage_emergency_stop_call, movement_flag, axisMoving,
    \* <<h>> while the z axis executes a move to the safe height h, else <<>>
    zSafeMove,
    calibration, coordinates_delta_hor, coordinates_delta_vert,
    automovement_safe_height,
    \* the list a coordinate method of StageStack works on, and how the call
    \* ended
    coordsArg, outcome,
    \* GUI thread: position, pending queued signals, enabled buttons
    gpc, guiQueue, buttons,
    \* the devices whose goto button is enabled, and the keys held down
    gotoEnabled, keysDown,
    \* the screening thread the window holds, and earlier ones still alive
    pretest_worker, orphans,
    \* the Manager and the full test Worker it runs
    manager,
    \* the number of the scan, and the disturbances so far
    scanNo, events,
    \* history: the descriptors put in this scan, the device whose screening
    \* last wrote the pass flag, the starter's read of the flag for the device
    \* it works on, the queue at the abort request, abort_all has returned,
    \* abort_all was called during the goto_coords the stage thread executes
    produced, passedWriter, lastRead, pendingAtAbort, abortReturned,
    abortMidGoto

flagVars == <<event_abort, producer_done, starter_done,
              current_device_passed_pretest, has_no_measurement>>
producerVars == <<ppc, ploop, presult>>
starterVars == <<spc, procdir, progress>>
stageVars == <<stpc, stageQueue, gotoCoords, stage_not_moving,
               stage_emergency_stop_call, movement_flag, axisMoving, zSafeMove>>
coordVars == <<calibration, coordinates_delta_hor, coordinates_delta_vert,
               automovement_safe_height, coordsArg, outcome>>
guiVars == <<gpc, guiQueue, buttons, gotoEnabled, keysDown>>
workerVars == <<pretest_worker, orphans, manager>>
envVars == <<grid, motorsOk, scanNo, events>>
histVars == <<produced, passedWriter, lastRead, pendingAtAbort, abortReturned,
             abortMidGoto>>

vars == <<flagVars, pipeline, producerVars, starterVars, stageVars, coordVars,
          guiVars, workerVars, envVars, histVars>>

(***************************************************************************)
(* Values.                                                                 *)
(***************************************************************************)
\* MakeProcdir with the weights of the chip column and the chip row in the
\* seed exchanged
MakeProcdirSeedSwapped(g, loop, folder) ==
    [chipcols |-> loop[1], chiprows |-> loop[2],
     devcols |-> loop[3], devrows |-> loop[4],
     seed |-> 100 * loop[1] + 1000 * loop[2] + 10 * loop[3] + loop[4],
     folder |-> folder,
     total_devices |-> <<g[2], g[1] * g[2], g[4], g[3] * g[4]>>]

\* the procdir dictionary of one device; folder stands for the time-stamped
\* scan folder its datafolder lies in
MakeProcdir(g, loop, folder) ==
    [chipcols |-> loop[1], chiprows |-> loop[2],
     devcols |-> loop[3], devrows |-> loop[4],
     seed |-> 1000 * loop[1] + 100 * loop[2] + 10 * loop[3] + loop[4],
     folder |-> folder,
     total_devices |-> <<g[2], g[1] * g[2], g[4], g[3] * g[4]>>]

\* no procdir
NoProc == MakeProcdir(<<0, 0, 0, 0>>, <<0, 0, 0, 0>>, 0)

\* no Worker object
NoWorker == [dev |-> NoProc, st |-> "none", stop |-> FALSE]

\* the starter has not read the pass flag for the device it works on
NoRead == [dev |-> NoProc, writer |-> NoProc, screening |-> "none", value |-> FALSE]

\* the Manager with nothing queued and nothing running
IdleManager == [queue |-> <<>>, running |-> NoProc, wst |-> "none", stop |-> FALSE]

Axes == {"x", "y", "z"}

\* the three calibration points, as capture_coords names them
Devices == {"00", "i0", "0j"}

\* the grids with every dimension in 1..MaxDim and at most MaxDevices devices
SmallGrids ==
    {g \in (1..MaxDim) \X (1..MaxDim) \X (1..MaxDim) \X (1..MaxDim) :
        g[1] * g[2] * g[3] * g[4] <= MaxDevices}

\* three calibration points captured with motors, far apart: the device
\* opposite to dev_00 lies beyond the boundary of the x axis
WideCalibration ==
    [dev_00 |-> <<<<-8000, 0>>, <<-10000, 0>>, <<5000, 0>>>>,
     dev_i0 |-> <<<<14000, 0>>, <<-11000, 0>>, <<4500, 0>>>>,
     dev_0j |-> <<<<-7000, 0>>, <<10000, 0>>, <<5500, 0>>>>]

\* the threads, flags, queues and widgets after the window is built and the
\* three calibration points are captured (the Start button is enabled), for
\* a grid of gs
InitProgram(gs) ==
    /\ grid \in gs
    /\ motorsOk \in BOOLEAN
    /\ event_abort = FALSE
    /\ producer_done = TRUE
    /\ starter_done = TRUE
    /\ current_device_passed_pretest = FALSE
    /\ has_no_measurement = TRUE
    /\ pipeline = <<>>
    /\ ppc = "idle" /\ ploop = <<0, 0, 0, 0>> /\ presult = "none"
    /\ spc = "idle" /\ procdir = NoProc /\ progress = <<0, 0>>
    /\ stpc = "idle" /\ stageQueue = <<>> /\ gotoCoords = coordinates_center
    /\ stage_not_moving = TRUE
    /\ stage_emergency_stop_call = FALSE
    /\ movement_flag = 0
    /\ axisMoving = [a \in Axes |-> FALSE]
    /\ zSafeMove = <<>>
    /\ gpc = "idle" /\ guiQueue = <<>>
    /\ gotoEnabled = Devices /\ keysDown = {}
    /\ buttons = [start |-> TRUE, abort |-> FALSE, abort_all |-> FALSE]
    /\ pretest_worker = NoWorker /\ orphans = {}
    /\ manager = IdleManager
    /\ scanNo = 0 /\ events = 0
    /\ produced = <<>>
    /\ passedWriter = NoProc /\ lastRead = NoRead
    /\ pendingAtAbort = {} /\ abortReturned = FALSE /\ abortMidGoto = FALSE

\* no coordinate method was called
NoOutcome == [op |-> "none", arg |-> <<>>]

\* the movement vectors StageStack starts with
InitDelta == <<<<0, 0>>, <<0, 0>>, <<500, 0>>>>

\* the state after the window is built and the three calibration points are
\* captured, for a grid of gs: without motors a capture leaves the stored
\* coordinates as they are
InitWith(gs) ==
    /\ InitProgram(gs)
    /\ calibration \in IF motorsOk THEN {InitCalibration, WideCalibration}
                               ELSE {InitCalibration}
    /\ coordinates_delta_hor = InitDelta
    /\ coordinates_delta_vert = InitDelta
    /\ automovement_safe_height = calc_new_safe_height(calibration)
    /\ coordsArg = coordinates_center
    /\ outcome = NoOutcome

\* the grids of the model: the small ones, one column of LongRows devices,
\* and one with no device rows
Grids == SmallGrids \cup {<<1, 1, 1, LongRows>>, <<1, 1, 1, 0>>}

Init == InitWith(Grids)

\* one more disturbance is within the bounds
MayDisturb ==
    /\ events < MaxEvents
    /\ grid[1] = 1 /\ grid[2] = 1 /\ grid[3] = 1 /\ grid[4] <= MaxDisturbedRows
    /\ calibration = InitCalibration

(***************************************************************************)
(* MainWindow.producer, run in the PRODUCER thread.                        *)
(***************************************************************************)
\* QueueHasRoom that lets one item more into the Queue
QueueHasRoomOffByOne(q) == Len(q) <= PipelineMaxsize

\* an item fits into the Queue
QueueHasRoom(q) == Len(q) < PipelineMaxsize

\* NextLoop with the loops over the device columns and the device rows
\* exchanged
NextLoopRowsOutside(g, loop) ==
    IF loop[3] + 1 < g[3] THEN <<loop[1], loop[2], loop[3] + 1, loop[4]>>
    ELSE IF loop[4] + 1 < g[4] THEN <<loop[1], loop[2], 0, loop[4] + 1>>
    ELSE IF loop[2] + 1 < g[2] THEN <<loop[1], loop[2] + 1, 0, 0>>
    ELSE IF loop[1] + 1 < g[1] THEN <<loop[1] + 1, 0, 0, 0>>
    ELSE <<>>

\* the loop variables after one more turn of the four nested for loops, or
\* <<>> when the loops are over
NextLoop(g, loop) ==
    IF loop[4] + 1 < g[4] THEN <<loop[1], loop[2], loop[3], loop[4] + 1>>
    ELSE IF loop[3] + 1 < g[3] THEN <<loop[1], loop[2], loop[3] + 1, 0>>
    ELSE IF loop[2] + 1 < g[2] THEN <<loop[1], loop[2] + 1, 0, 0>>
    ELSE IF loop[1] + 1 < g[1] THEN <<loop[1] + 1, 0, 0, 0>>
    ELSE <<>>

\* os.makedirs(folder) succeeds; the movement vectors are updated and the
\* loops are entered
ProducerStart ==
    /\ ppc = "start"
    /\ IF delta_raises(grid[1], grid[3])
       THEN /\ ppc' = "dead"
            /\ UNCHANGED <<ploop, coordinates_delta_hor, coordinates_delta_vert>>
       ELSE IF delta_raises(grid[2], grid[4])
       THEN /\ coordinates_delta_hor' =
                   calc_coordinates_delta_hor(calibration, grid[1], grid[3])
            /\ ppc' = "dead"
            /\ UNCHANGED <<ploop, coordinates_delta_vert>>
       ELSE /\ coordinates_delta_hor' =
                   calc_coordinates_delta_hor(calibration, grid[1], grid[3])
            /\ coordinates_delta_vert' =
                   calc_coordinates_delta_vert(calibration, grid[2], grid[4])
            /\ IF \A i \in 1..4 : grid[i] >= 1
               THEN ppc' = "put" /\ ploop' = <<0, 0, 0, 0>>
               ELSE ppc' = "done_t" /\ ploop' = ploop
    /\ UNCHANGED <<flagVars, pipeline, presult, starterVars, stageVars,
                   calibration, automovement_safe_height, coordsArg, outcome,
                   guiVars, workerVars, envVars, histVars>>

\* a producer whose os.makedirs(folder) comes after the movement vectors
ProducerMakedirsFailsLate ==
    /\ ppc = "start"
    /\ MayDisturb
    /\ events' = events + 1
    /\ coordinates_delta_hor' =
           calc_coordinates_delta_hor(calibration, grid[1], grid[3])
    /\ coordinates_delta_vert' =
           calc_coordinates_delta_vert(calibration, grid[2], grid[4])
    /\ ppc' = "dead"
    /\ UNCHANGED <<flagVars, pipeline, ploop, presult, starterVars, stageVars,
                   calibration, automovement_safe_height, coordsArg, outcome,
                   guiVars, workerVars, grid, motorsOk, scanNo, histVars>>

\* os.makedirs(folder) raises: the thread ends with the exception
ProducerMakedirsFails ==
    /\ ppc = "start"
    /\ MayDisturb
    /\ events' = events + 1
    /\ ppc' = "dead"
    /\ UNCHANGED <<flagVars, pipeline, ploop, presult, starterVars, stageVars,
                   coordVars, guiVars, workerVars, grid, motorsOk, scanNo,
                   histVars>>

\* ProducerPut that puts the procdir at the head of the Queue
ProducerPutInFront ==
    /\ ppc = "put"
    /\ QueueHasRoom(pipeline)
    /\ pipeline' = <<MakeProcdir(grid, ploop, scanNo)>> \o pipeline
    /\ produced' = Append(produced, MakeProcdir(grid, ploop, scanNo))
    /\ ppc' = "check"
    /\ UNCHANGED <<flagVars, ploop, presult, starterVars, stageVars, coordVars,
                   guiVars, workerVars, envVars, passedWriter, lastRead,
                   pendingAtAbort, abortReturned, abortMidGoto>>

\* queue.put(procdir), which blocks while the queue is full
ProducerPut ==
    /\ ppc = "put"
    /\ QueueHasRoom(pipeline)
    /\ pipeline' = Append(pipeline, MakeProcdir(grid, ploop, scanNo))
    /\ produced' = Append(produced, MakeProcdir(grid, ploop, scanNo))
    /\ ppc' = "check"
    /\ UNCHANGED <<flagVars, ploop, presult, starterVars, stageVars, coordVars,
                   guiVars, workerVars, envVars, passedWriter, lastRead,
                   pendingAtAbort, abortReturned, abortMidGoto>>

\* if self.event_abort.is_set(), else the next turn of the loops
ProducerCheck ==
    /\ ppc = "check"
    /\ IF event_abort
       THEN ppc' = "done_f" /\ ploop' = ploop
       ELSE IF NextLoop(grid, ploop) = <<>>
            THEN ppc' = "done_t" /\ ploop' = ploop
            ELSE ppc' = "put" /\ ploop' = NextLoop(grid, ploop)
    /\ UNCHANGED <<flagVars, pipeline, presult, starterVars, stageVars,
                   coordVars, guiVars, workerVars, envVars, histVars>>

\* self.producer_done.set(); return
ProducerDone ==
    /\ ppc \in {"done_t", "done_f"}
    /\ producer_done' = TRUE
    /\ presult' = IF ppc = "done_t" THEN "True" ELSE "False"
    /\ ppc' = "idle"
    /\ UNCHANGED <<event_abort, starter_done, current_device_passed_pretest,
                   has_no_measurement, pipeline, ploop, starterVars, stageVars,
                   coordVars, guiVars, workerVars, envVars, histVars>>

Producer ==
    \/ ProducerStart
    \/ ProducerMakedirsFails
    \/ ProducerPut
    \/ ProducerCheck
    \/ ProducerDone

(***************************************************************************)
(* MainWindow.starter, run in the STARTER thread.                          *)
(***************************************************************************)
\* a queued signal for the window / a queued slot call for the StageStack
GuiEvent(type, arg) == [type |-> type, arg |-> arg]
StageCall(cmd, coords) == [cmd |-> cmd, coords |-> coords]

(***************************************************************************)
(* Python's float arithmetic in the progress of the starter.  A float x    *)
(* with 0 <= x is the record [int, frac]: its integer part and the bits of *)
(* its binary fraction; every operation rounds its exact result to         *)
(* FloatBits significant bits, to nearest, ties to even.                   *)
(***************************************************************************)
\* the significand of a Python float (IEEE 754 double)
FloatBits == 53

RECURSIVE BitLen(_)
\* the number of bits of the integer i
BitLen(i) == IF i = 0 THEN 0 ELSE 1 + BitLen(i \div 2)

\* the number of 0 bits at the head of a fraction
LeadingZeros(bits) ==
    IF \A j \in 1..Len(bits) : bits[j] = 0 THEN Len(bits)
    ELSE (CHOOSE j \in 1..Len(bits) :
              bits[j] = 1 /\ \A h \in 1..j - 1 : bits[h] = 0) - 1

RECURSIVE Zeros(_)
\* n bits 0
Zeros(n) ==
    IF n <= 0 THEN <<>>
    ELSE IF n = 1 THEN <<0>>
    ELSE Zeros(n \div 2) \o Zeros(n - n \div 2)

\* one unit in the last place added to a fraction, and the carry out of it
Increment(bits) ==
    IF \A j \in 1..Len(bits) : bits[j] = 1
    THEN [carry |-> 1, bits |-> Zeros(Len(bits))]
    ELSE LET last0 == CHOOSE j \in 1..Len(bits) :
                          bits[j] = 0 /\ \A h \in j + 1..Len(bits) : bits[h] = 1
         IN  [carry |-> 0,
              bits |-> SubSeq(bits, 1, last0 - 1) \o <<1>>
                           \o Zeros(Len(bits) - last0)]

\* the float nearest to the exact value i + 0.bits (+ something below the
\* last bit when sticky)
float_round(i, bits, sticky) ==
    LET keep == IF i > 0 THEN FloatBits - BitLen(i)
                         ELSE LeadingZeros(bits) + FloatBits
    IN  IF Len(bits) <= keep THEN [int |-> i, frac |-> bits]
        ELSE LET kept == SubSeq(bits, 1, keep)
                 below == sticky \/ \E j \in keep + 2..Len(bits) : bits[j] = 1
                 odd == IF keep = 0 THEN i % 2 = 1 ELSE bits[keep] = 1
             IN  IF bits[keep + 1] = 1 /\ (below \/ odd)
                 THEN LET r == Increment(kept)
                      IN  [int |-> i + r.carry, frac |-> r.bits]
                 ELSE [int |-> i, frac |-> kept]

RECURSIVE DivFrac(_, _, _, _, _)
\* long division by n of the bits lo..hi of a fraction, r being the
\* remainder left by the bits before them: the bits of the quotient and the
\* remainder after them (the two halves one after the other)
DivFrac(bits, lo, hi, r, n) ==
    IF lo > hi THEN [bits |-> <<>>, r |-> r]
    ELSE IF lo = hi
    THEN [bits |-> <<(2 * r + bits[lo]) \div n>>, r |-> (2 * r + bits[lo]) % n]
    ELSE LET mid == (lo + hi) \div 2
             left == DivFrac(bits, lo, mid, r, n)
             right == DivFrac(bits, mid + 1, hi, left.r, n)
         IN  [bits |-> left.bits \o right.bits, r |-> right.r]

\* x / n for a float x and an int n > 0: the quotient is worked out to more
\* bits than a float keeps and then rounded
float_div(x, n) ==
    LET places == LeadingZeros(x.frac) + BitLen(n) + FloatBits + 1
        dividend == x.frac \o Zeros(places)
        d == DivFrac(dividend, 1, Len(dividend), x.int % n, n)
    IN  float_round(x.int \div n, d.bits, d.r # 0)

RECURSIVE Reverse(_)
\* a sequence back to front
Reverse(s) ==
    IF Len(s) <= 1 THEN s
    ELSE Reverse(SubSeq(s, Len(s) \div 2 + 1, Len(s)))
             \o Reverse(SubSeq(s, 1, Len(s) \div 2))

RECURSIVE MulFrac(_, _, _, _, _)
\* c times the bits lo..hi of a fraction plus the carry out of the bits
\* after them: the bits of the product, the last one first, and the carry
\* out of them (the half at the end before the half at the front)
MulFrac(bits, lo, hi, c, carry) ==
    IF lo > hi THEN [rev |-> <<>>, carry |-> carry]
    ELSE IF lo = hi
    THEN [rev |-> <<(c * bits[lo] + carry) % 2>>,
          carry |-> (c * bits[lo] + carry) \div 2]
    ELSE LET mid == (lo + hi) \div 2
             right == MulFrac(bits, mid + 1, hi, c, carry)
             left == MulFrac(bits, lo, mid, c, right.carry)
         IN  [rev |-> right.rev \o left.rev, carry |-> left.carry]

\* x * c for a float x and an int c >= 0
float_mul(x, c) ==
    LET m == MulFrac(x.frac, 1, Len(x.frac), c, 0)
    IN  float_round(c * x.int + m.carry, Reverse(m.rev), FALSE)

\* a + x for an int a >= 0 and a float x
float_add(a, x) == float_round(a + x.int, x.frac, FALSE)

\* the two integers of the progress signal: int(progress_total * 100) and
\* int(progress_current_chip * 100)
ProgressOf(d) ==
    LET progress_current_chip ==
            float_div([int |-> d.devcols * d.total_devices[3] + d.devrows + 1,
                       frac |-> <<>>],
                      d.total_devices[4])
        progress_total ==
            float_div(float_add(d.chipcols * d.total_devices[1] + d.chiprows,
                                progress_current_chip),
                      d.total_devices[2])
    IN  <<float_mul(progress_total, 100).int,
          float_mul(progress_current_chip, 100).int>>

\* the target the starter asks the stage to move to
TargetOf(d) ==
    calc_dev_coordinates(calibration, coordinates_delta_hor, coordinates_delta_vert,
                         d.chipcols, d.chiprows, d.devcols, d.devrows)

\* AbortCheck of a starter that does not look at event_abort
AbortCheckIgnored(abort, goOn) == goOn

\* where the starter goes on at one of its abort checks
AbortCheck(abort, goOn) == IF abort THEN "after" ELSE goOn

\* while (not self.producer_done.is_set() ...
StarterTestDone ==
    /\ spc = "test1"
    /\ spc' = IF ~producer_done THEN "get" ELSE "test2"
    /\ UNCHANGED <<flagVars, pipeline, producerVars, procdir, progress,
                   stageVars, coordVars, guiVars, workerVars, envVars, histVars>>

\* ... or not queue.empty()):
StarterTestEmpty ==
    /\ spc = "test2"
    /\ spc' = IF pipeline # <<>> THEN "get" ELSE "after"
    /\ UNCHANGED <<flagVars, pipeline, producerVars, procdir, progress,
                   stageVars, coordVars, guiVars, workerVars, envVars, histVars>>

\* procdir = queue.get(), which blocks while the queue is empty;
\* os.makedirs(procdir['datafolder']); self.stages.stage_not_moving.clear();
\* sig_stage_moveTo_command.emit(calc_dev_coordinates(...)), where the
\* boundary check raises for a target out of bounds and the thread ends
StarterGet ==
    /\ spc = "get"
    /\ pipeline # <<>>
    /\ procdir' = Head(pipeline)
    /\ pipeline' = Tail(pipeline)
    /\ stage_not_moving' = FALSE
    /\ IF coords_boudary_check(TargetOf(Head(pipeline)))
       THEN spc' = "dead" /\ stageQueue' = stageQueue
       ELSE /\ stageQueue' = Append(stageQueue,
                                    StageCall("goto", TargetOf(Head(pipeline))))
            /\ spc' = "wait_move"
    /\ UNCHANGED <<flagVars, producerVars, progress, stpc, gotoCoords,
                   stage_emergency_stop_call, movement_flag, axisMoving, zSafeMove,
                   coordVars, guiVars, workerVars, envVars, histVars>>

\* procdir = queue.get(); os.makedirs(procdir['datafolder']) raises: the
\* thread ends with the exception
StarterMakedirsFails ==
    /\ spc = "get"
    /\ pipeline # <<>>
    /\ MayDisturb
    /\ events' = events + 1
    /\ procdir' = Head(pipeline)
    /\ pipeline' = Tail(pipeline)
    /\ spc' = "dead"
    /\ UNCHANGED <<flagVars, producerVars, progress, stageVars, coordVars,
                   guiVars, workerVars, grid, motorsOk, scanNo, histVars>>

\* self.stages.stage_not_moving.wait(); sleep(1);
\* if self.event_abort.is_set(): break
StarterWaitMove ==
    /\ spc = "wait_move"
    /\ stage_not_moving
    /\ spc' = AbortCheck(event_abort, "pretest")
    /\ UNCHANGED <<flagVars, pipeline, producerVars, procdir, progress,
                   stageVars, coordVars, guiVars, workerVars, envVars, histVars>>

\* self.pretest_worker = Worker(results); self.pretest_worker.start()
StarterPretest ==
    /\ spc = "pretest"
    /\ orphans' = IF pretest_worker.st \in {"none", "dead"}
                  THEN orphans
                  ELSE orphans \cup {pretest_worker}
    /\ pretest_worker' = [dev |-> procdir, st |-> "running", stop |-> FALSE]
    /\ spc' = "join"
    /\ UNCHANGED <<flagVars, pipeline, producerVars, procdir, progress,
                   stageVars, coordVars, guiVars, manager, envVars, histVars>>

\* self.pretest_worker.join(timeout=3600) returns because the thread ended;
\* sleep(1); if self.event_abort.is_set(): break
StarterJoin ==
    /\ spc = "join"
    /\ pretest_worker.st = "dead"
    /\ spc' = AbortCheck(event_abort, "read_pass")
    /\ UNCHANGED <<flagVars, pipeline, producerVars, procdir, progress,
                   stageVars, coordVars, guiVars, workerVars, envVars, histVars>>

\* the same when join returns because the 3600 s are over
StarterJoinTimeout ==
    /\ spc = "join"
    /\ pretest_worker.st # "dead"
    /\ MayDisturb
    /\ events' = events + 1
    /\ spc' = AbortCheck(event_abort, "read_pass")
    /\ UNCHANGED <<flagVars, pipeline, producerVars, procdir, progress,
                   stageVars, coordVars, guiVars, workerVars, grid, motorsOk,
                   scanNo, histVars>>

\* if self.current_device_passed_pretest.isSet(): the full test is submitted
\* (self._has_no_measurement.clear(); signals.procedure.emit(procedure))
StarterSubmit ==
    /\ spc = "read_pass"
    /\ current_device_passed_pretest
    /\ lastRead' = [dev |-> procdir, writer |-> passedWriter,
                    screening |-> pretest_worker.st,
                    value |-> current_device_passed_pretest]
    /\ has_no_measurement' = FALSE
    /\ guiQueue' = Append(guiQueue, GuiEvent("procedure", procdir))
    /\ UNCHANGED <<gotoEnabled, keysDown>>
    /\ spc' = "wait_hnm"
    /\ UNCHANGED <<event_abort, producer_done, starter_done,
                   current_device_passed_pretest, pipeline, producerVars,
                   procdir, progress, stageVars, coordVars, gpc, buttons,
                   workerVars, envVars, produced, passedWriter, pendingAtAbort,
                   abortReturned, abortMidGoto>>

\* the flag is not set: signals.progress.emit(...);
\* if self.event_abort.is_set(): break
StarterSkip ==
    /\ spc = "read_pass"
    /\ ~current_device_passed_pretest
    /\ progress' = ProgressOf(procdir)
    /\ spc' = AbortCheck(event_abort, "test1")
    /\ UNCHANGED <<flagVars, pipeline, producerVars, procdir, stageVars,
                   coordVars, guiVars, workerVars, envVars, histVars>>

\* self._has_no_measurement.wait(); signals.progress.emit(...);
\* if self.event_abort.is_set(): break
StarterWaitMeasurement ==
    /\ spc = "wait_hnm"
    /\ has_no_measurement
    /\ progress' = ProgressOf(procdir)
    /\ lastRead' = NoRead
    /\ spc' = AbortCheck(event_abort, "test1")
    /\ UNCHANGED <<flagVars, pipeline, producerVars, procdir, stageVars,
                   coordVars, guiVars, workerVars, envVars, produced,
                   passedWriter, pendingAtAbort, abortReturned, abortMidGoto>>

\* after the loop: if not self.event_abort.is_set(): the stage is sent to
\* the center (stage_not_moving.clear(); sig_stage_moveTo_command.emit(...))
StarterAfterLoop ==
    /\ spc = "after"
    /\ IF event_abort
       THEN /\ spc' = "set_done"
            /\ UNCHANGED <<stage_not_moving, stageQueue>>
       ELSE /\ spc' = "final_wait"
            /\ stage_not_moving' = FALSE
            /\ stageQueue' = Append(stageQueue, StageCall("goto", coordinates_center))
    /\ UNCHANGED <<flagVars, pipeline, producerVars, procdir, progress, stpc,
                   gotoCoords, stage_emergency_stop_call, movement_flag,
                   axisMoving, zSafeMove, coordVars, guiVars, workerVars, envVars, histVars>>

\* self.stages.stage_not_moving.wait()
StarterWaitCenter ==
    /\ spc = "final_wait"
    /\ stage_not_moving
    /\ spc' = "set_done"
    /\ UNCHANGED <<flagVars, pipeline, producerVars, procdir, progress,
                   stageVars, coordVars, guiVars, workerVars, envVars, histVars>>

\* self.starter_done.set(); return True; QWorker.run emits finished
StarterDone ==
    /\ spc = "set_done"
    /\ starter_done' = TRUE
    /\ guiQueue' = Append(guiQueue, GuiEvent("finished", NoProc))
    /\ UNCHANGED <<gotoEnabled, keysDown>>
    /\ procdir' = NoProc
    /\ spc' = "idle"
    /\ UNCHANGED <<event_abort, producer_done, current_device_passed_pretest,
                   has_no_measurement, pipeline, producerVars, progress,
                   stageVars, coordVars, gpc, buttons, workerVars, envVars,
                   histVars>>

Starter ==
    \/ StarterTestDone
    \/ StarterTestEmpty
    \/ StarterGet
    \/ StarterMakedirsFails
    \/ StarterWaitMove
    \/ StarterPretest
    \/ StarterJoin
    \/ StarterJoinTimeout
    \/ StarterSubmit
    \/ StarterSkip
    \/ StarterWaitMeasurement
    \/ StarterAfterLoop
    \/ StarterWaitCenter
    \/ StarterDone

(***************************************************************************)
(* The screening threads: Worker.run with a RandomFakePreTest procedure.   *)
(* execute() ends by itself or at a should_stop(); shutdown() then decides *)
(* on the pass flag and writes it.                                         *)
(***************************************************************************)
\* the branch RandomFakePreTest.shutdown takes: "will_clear" when the current
\* was too low or the thread was asked to stop, else "will_set"
ShutdownBranch(w, goodCurrent) ==
    IF ~goodCurrent \/ w.stop THEN "will_clear" ELSE "will_set"

\* the thread of the window's pretest_worker evaluates the condition of shutdown
PretestDecide ==
    /\ pretest_worker.st = "running"
    /\ \E goodCurrent \in BOOLEAN :
          pretest_worker' =
              [pretest_worker EXCEPT !.st = ShutdownBranch(pretest_worker, goodCurrent)]
    /\ UNCHANGED <<flagVars, pipeline, producerVars, starterVars, stageVars,
                   coordVars, guiVars, orphans, manager, envVars, histVars>>

\* ... writes the flag, and the thread ends (Worker.run: self.stop())
PretestWrite ==
    /\ pretest_worker.st \in {"will_set", "will_clear"}
    /\ current_device_passed_pretest' = (pretest_worker.st = "will_set")
    /\ passedWriter' = pretest_worker.dev
    /\ pretest_worker' = [pretest_worker EXCEPT !.st = "dead", !.stop = TRUE]
    /\ UNCHANGED <<event_abort, producer_done, starter_done, has_no_measurement,
                   pipeline, producerVars, starterVars, stageVars, coordVars,
                   guiVars, orphans, manager, envVars, produced, lastRead,
                   pendingAtAbort, abortReturned, abortMidGoto>>

\* the same two steps of a screening thread the window no longer holds
OrphanDecide ==
    \E w \in orphans :
       /\ w.st = "running"
       /\ \E goodCurrent \in BOOLEAN :
             orphans' = (orphans \ {w})
                          \cup {[w EXCEPT !.st = ShutdownBranch(w, goodCurrent)]}
       /\ UNCHANGED <<flagVars, pipeline, producerVars, starterVars, stageVars,
                      coordVars, guiVars, pretest_worker, manager, envVars,
                      histVars>>

OrphanWrite ==
    \E w \in orphans :
       /\ w.st \in {"will_set", "will_clear"}
       /\ current_device_passed_pretest' = (w.st = "will_set")
       /\ passedWriter' = w.dev
       /\ orphans' = orphans \ {w}
       /\ UNCHANGED <<event_abort, producer_done, starter_done,
                      has_no_measurement, pipeline, producerVars, starterVars,
                      stageVars, coordVars, guiVars, pretest_worker, manager,
                      envVars, produced, lastRead, pendingAtAbort, abortReturned,
                      abortMidGoto>>

Screening ==
    \/ PretestDecide
    \/ PretestWrite
    \/ OrphanDecide
    \/ OrphanWrite

(***************************************************************************)
(* StageStack: its slots run one at a time in the stage thread, in the     *)
(* order their signals were emitted.                                       *)
(***************************************************************************)
\* the positions of goto_coords in which it waits for a commanded phase
GotoPhases == {"g_safe", "g_horiz", "g_final"}

\* StageStack.speed_up and StageStack.slow_down on _movement_flag
speed_up(flag) == flag + SpeedBit
slow_down(flag) == flag - SpeedBit

\* a goto_coords that commands stage_z without looking at motorsOk
StageGotoStartDrivesAxes ==
    /\ stpc = "idle"
    /\ stageQueue # <<>>
    /\ Head(stageQueue).cmd = "goto"
    /\ stageQueue' = Tail(stageQueue)
    /\ gotoCoords' = Head(stageQueue).coords
    /\ stage_not_moving' = FALSE
    /\ movement_flag' = speed_up(movement_flag)
    /\ axisMoving' = [axisMoving EXCEPT !["z"] = TRUE]
    /\ zSafeMove' = <<automovement_safe_height>>
    /\ stpc' = "g_safe"
    /\ UNCHANGED <<flagVars, pipeline, producerVars, starterVars,
                   stage_emergency_stop_call, coordVars, guiVars, workerVars,
                   envVars, histVars>>

\* goto_coords up to its first wait: stage_not_moving.clear(); speed_up();
\* with motors command_move(stage_z, safe height), without them sleep(2)
StageGotoStart ==
    /\ stpc = "idle"
    /\ stageQueue # <<>>
    /\ Head(stageQueue).cmd = "goto"
    /\ stageQueue' = Tail(stageQueue)
    /\ gotoCoords' = Head(stageQueue).coords
    /\ stage_not_moving' = FALSE
    /\ movement_flag' = speed_up(movement_flag)
    /\ IF motorsOk
       THEN /\ axisMoving' = [axisMoving EXCEPT !["z"] = TRUE]
            /\ zSafeMove' = <<automovement_safe_height>>
            /\ stpc' = "g_safe"
       ELSE /\ UNCHANGED <<axisMoving, zSafeMove>>
            /\ stpc' = "g_finish"
    /\ UNCHANGED <<flagVars, pipeline, producerVars, starterVars,
                   stage_emergency_stop_call, coordVars, guiVars, workerVars,
                   envVars, histVars>>

\* a goto_coords whose waits and checks ignore the emergency stop call
GotoPhaseEndsUninterruptible(phase, stopped, next, started) ==
    /\ stpc = phase
    /\ axisMoving' = [a \in Axes |->
                         IF a \in started THEN TRUE
                         ELSE IF a \in stopped THEN FALSE
                         ELSE axisMoving[a]]
    /\ zSafeMove' = IF "z" \in stopped \cup started THEN <<>> ELSE zSafeMove
    /\ stpc' = next
    /\ UNCHANGED movement_flag
    /\ abortMidGoto' = (abortMidGoto /\ stpc' \in GotoPhases)
    /\ UNCHANGED <<flagVars, pipeline, producerVars, starterVars, stageQueue,
                   gotoCoords, stage_not_moving, stage_emergency_stop_call,
                   coordVars, guiVars, workerVars, envVars, produced,
                   passedWriter, lastRead, pendingAtAbort, abortReturned>>

\* _interruptable_wait_for_stop returns and the phase just commanded is
\* over: on an emergency stop call slow_down(); return False, else the
\* axes of the phase have stopped and the axes of the next phase are
\* commanded
GotoPhaseEnds(phase, stopped, next, started) ==
    /\ stpc = phase
    /\ IF stage_emergency_stop_call
       THEN /\ movement_flag' = slow_down(movement_flag)
            /\ stpc' = "idle"
            /\ UNCHANGED <<axisMoving, zSafeMove>>
       ELSE /\ axisMoving' = [a \in Axes |->
                                 IF a \in started THEN TRUE
                                 ELSE IF a \in stopped THEN FALSE
                                 ELSE axisMoving[a]]
            /\ zSafeMove' = IF "z" \in stopped \cup started THEN <<>>
                                                              ELSE zSafeMove
            /\ stpc' = next
            /\ UNCHANGED movement_flag
    /\ abortMidGoto' = (abortMidGoto /\ stpc' \in GotoPhases)
    /\ UNCHANGED <<flagVars, pipeline, producerVars, starterVars, stageQueue,
                   gotoCoords, stage_not_moving, stage_emergency_stop_call,
                   coordVars, guiVars, workerVars, envVars, produced,
                   passedWriter, lastRead, pendingAtAbort, abortReturned>>

\* the safe height is reached: command_move of stage_x and stage_y
StageGotoSafeReached == GotoPhaseEnds("g_safe", {"z"}, "g_horiz", {"x", "y"})

\* the horizontal target is reached: command_move of stage_z
StageGotoHorizReached == GotoPhaseEnds("g_horiz", {"x", "y"}, "g_final", {"z"})

\* the final height is reached
StageGotoFinalReached == GotoPhaseEnds("g_final", {"z"}, "g_finish", {})

\* self.slow_down(); sleep(1); self.stage_not_moving.set()
StageGotoFinish ==
    /\ stpc = "g_finish"
    /\ movement_flag' = slow_down(movement_flag)
    /\ stage_not_moving' = TRUE
    /\ stpc' = "idle"
    /\ UNCHANGED <<flagVars, pipeline, producerVars, starterVars, stageQueue,
                   gotoCoords, stage_emergency_stop_call, axisMoving, zSafeMove, coordVars,
                   guiVars, workerVars, envVars, histVars>>

\* stage_movement_emergency_stop: stage_not_moving.set(); _movement_flag = 0;
\* with motors command_sstp on the three axes and the wait for them to
\* stop, without motors stage_emergency_stop_call.clear() at once
StageEmergencyStop ==
    /\ stpc = "idle"
    /\ stageQueue # <<>>
    /\ Head(stageQueue).cmd = "estop"
    /\ stageQueue' = Tail(stageQueue)
    /\ stage_not_moving' = TRUE
    /\ movement_flag' = 0
    /\ IF motorsOk
       THEN stpc' = "e_stop" /\ UNCHANGED stage_emergency_stop_call
       ELSE stpc' = "idle" /\ stage_emergency_stop_call' = FALSE
    /\ UNCHANGED <<flagVars, pipeline, producerVars, starterVars, gotoCoords,
                   axisMoving, zSafeMove, coordVars, guiVars, workerVars, envVars, histVars>>

\* the three axes have stopped; self.stage_emergency_stop_call.clear()
StageEmergencyStopEnd ==
    /\ stpc = "e_stop"
    /\ axisMoving' = [a \in Axes |-> FALSE]
    /\ zSafeMove' = <<>>
    /\ stage_emergency_stop_call' = FALSE
    /\ stpc' = "idle"
    /\ UNCHANGED <<flagVars, pipeline, producerVars, starterVars, stageQueue,
                   gotoCoords, stage_not_moving, movement_flag, coordVars,
                   guiVars, workerVars, envVars, histVars>>

Stage ==
    \/ StageGotoStart
    \/ StageGotoSafeReached
    \/ StageGotoHorizReached
    \/ StageGotoFinalReached
    \/ StageGotoFinish
    \/ StageEmergencyStop
    \/ StageEmergencyStopEnd

(***************************************************************************)
(* The Manager of the window (the task sink).  It accepts a full test,     *)
(* runs one at a time in a worker thread of its own and signals the end of *)
(* each to the window.                                                     *)
(***************************************************************************)
\* Manager.next: the first queued full test starts when none is running
ManagerNext(m) ==
    IF m.wst = "none" /\ m.queue # <<>>
    THEN [queue |-> Tail(m.queue), running |-> Head(m.queue),
          wst |-> "running", stop |-> FALSE]
    ELSE m

\* Manager.queue(experiment)
ManagerQueue(m, d) == ManagerNext([m EXCEPT !.queue = Append(m.queue, d)])

\* Manager.abort(): the running full test is asked to stop; the call does
\* not wait for it (and raises when nothing is running, which the window
\* catches)
ManagerAbort(m) == IF m.wst = "running" THEN [m EXCEPT !.stop = TRUE] ELSE m

\* the ended full test is taken off the manager
ManagerCleanUp(m) == [m EXCEPT !.running = NoProc, !.wst = "none", !.stop = FALSE]

\* the worker thread of the running full test ends, by itself or at a stop
\* request, and the manager is told by a queued signal
FullTestEnds ==
    /\ manager.wst = "running"
    /\ manager' = [manager EXCEPT !.wst = IF manager.stop THEN "aborted" ELSE "finished"]
    /\ guiQueue' = Append(guiQueue, GuiEvent("worker_done", NoProc))
    /\ UNCHANGED <<gotoEnabled, keysDown>>
    /\ UNCHANGED <<flagVars, pipeline, producerVars, starterVars, stageVars,
                   coordVars, gpc, buttons, pretest_worker, orphans, envVars,
                   histVars>>

(***************************************************************************)
(* The GUI thread: button callbacks, key presses and the slots of queued   *)
(* signals run one at a time; abort_all keeps the thread until it returns. *)
(***************************************************************************)
\* MainWindow.start_scan, the callback of the Start button
StartScan ==
    /\ gpc = "idle"
    /\ buttons.start
    /\ scanNo = 0 \/ MayDisturb
    /\ events' = IF scanNo = 0 THEN events ELSE events + 1
    /\ scanNo' = scanNo + 1
    /\ event_abort' = FALSE
    /\ buttons' = [start |-> FALSE, abort |-> FALSE, abort_all |-> TRUE]
    /\ gotoEnabled' = {}
    /\ progress' = <<0, 0>>
    /\ producer_done' = FALSE
    /\ ppc' = "start" /\ presult' = "none"
    /\ starter_done' = FALSE
    /\ spc' = "test1"
    /\ produced' = <<>>
    /\ pendingAtAbort' = {}
    /\ abortReturned' = FALSE
    /\ UNCHANGED <<current_device_passed_pretest, has_no_measurement, pipeline,
                   ploop, procdir, stageVars, coordVars, gpc, guiQueue, keysDown,
                   workerVars, grid, motorsOk, passedWriter, lastRead,
                   abortMidGoto>>

\* abort_all up to its loop: self.event_abort.set();
\* sig_stage_emergency_stop.emit(); sleep(0.1)
AbortAllStart ==
    /\ gpc = "idle"
    /\ buttons.abort_all
    /\ MayDisturb
    /\ events' = events + 1
    /\ event_abort' = TRUE
    /\ stageQueue' = Append(stageQueue, StageCall("estop", coordinates_center))
    /\ gpc' = "drain_test1"
    /\ pendingAtAbort' = {pipeline[i] : i \in 1..Len(pipeline)}
    /\ abortReturned' = FALSE
    /\ abortMidGoto' = (stpc \in GotoPhases)
    /\ UNCHANGED <<producer_done, starter_done, current_device_passed_pretest,
                   has_no_measurement, pipeline, producerVars, starterVars,
                   stpc, gotoCoords, stage_not_moving, stage_emergency_stop_call,
                   movement_flag, axisMoving, zSafeMove, coordVars, guiQueue, gotoEnabled, keysDown, buttons,
                   workerVars, grid, motorsOk, scanNo, produced, passedWriter,
                   lastRead>>

\* while not self.pipeline.empty() ...
AbortAllTestEmpty ==
    /\ gpc = "drain_test1"
    /\ gpc' = IF pipeline # <<>> THEN "drain_get" ELSE "drain_test2"
    /\ UNCHANGED <<flagVars, pipeline, producerVars, starterVars, stageVars,
                   coordVars, guiQueue, gotoEnabled, keysDown, buttons, workerVars, envVars, histVars>>

\* ... or not self.producer_done.is_set():
AbortAllTestDone ==
    /\ gpc = "drain_test2"
    /\ gpc' = IF ~producer_done THEN "drain_get" ELSE "abort_tail"
    /\ UNCHANGED <<flagVars, pipeline, producerVars, starterVars, stageVars,
                   coordVars, guiQueue, gotoEnabled, keysDown, buttons, workerVars, envVars, histVars>>

\* self.pipeline.get(), which blocks while the queue is empty; sleep(0.01)
AbortAllGet ==
    /\ gpc = "drain_get"
    /\ pipeline # <<>>
    /\ pipeline' = Tail(pipeline)
    /\ gpc' = "drain_test1"
    /\ UNCHANGED <<flagVars, producerVars, starterVars, stageVars, coordVars,
                   guiQueue, gotoEnabled, keysDown, buttons, workerVars, envVars, histVars>>

\* Worker.stop() on the window's pretest_worker (a window without one
\* raises, which is caught)
WorkerStop(w) == IF w.st = "none" THEN w ELSE [w EXCEPT !.stop = TRUE]

\* the rest of abort_all: self.pretest_worker.stop();
\* self.current_device_passed_pretest.clear(); self.abort();
\* self._has_no_measurement.set()
AbortAllEnd ==
    /\ gpc = "abort_tail"
    /\ pretest_worker' = WorkerStop(pretest_worker)
    /\ current_device_passed_pretest' = FALSE
    /\ passedWriter' = NoProc
    /\ buttons' = [buttons EXCEPT !.abort = FALSE]
    /\ manager' = ManagerAbort(manager)
    /\ has_no_measurement' = TRUE
    /\ abortReturned' = TRUE
    /\ gpc' = "idle"
    /\ UNCHANGED <<event_abort, producer_done, starter_done, pipeline,
                   producerVars, starterVars, stageVars, coordVars, guiQueue, gotoEnabled, keysDown,
                   orphans, envVars, produced, lastRead, pendingAtAbort,
                   abortMidGoto>>

\* MainWindow.abort, the callback of the Abort button
AbortCurrent ==
    /\ gpc = "idle"
    /\ buttons.abort
    /\ buttons' = [buttons EXCEPT !.abort = FALSE]
    /\ manager' = ManagerAbort(manager)
    /\ UNCHANGED <<flagVars, pipeline, producerVars, starterVars, stageVars,
                   coordVars, gpc, guiQueue, gotoEnabled, keysDown, pretest_worker, orphans, envVars,
                   histVars>>

\* the Escape key in eventFilter: self.stages.stage_emergency_stop_call.set();
\* sleep(0.1); sig_stage_emergency_stop.emit()
EscapeKey ==
    /\ gpc = "idle"
    /\ MayDisturb
    /\ events' = events + 1
    /\ stage_emergency_stop_call' = TRUE
    /\ stageQueue' = Append(stageQueue, StageCall("estop", coordinates_center))
    /\ UNCHANGED <<flagVars, pipeline, producerVars, starterVars, stpc,
                   gotoCoords, stage_not_moving, movement_flag, axisMoving, zSafeMove,
                   coordVars, guiVars, workerVars, grid, motorsOk, scanNo,
                   histVars>>

\* the slot of the starter's procedure signal: MainWindow.queue_experiment,
\* and MainWindow.queued on the manager's queued signal
GuiQueueExperiment ==
    /\ gpc = "idle"
    /\ guiQueue # <<>>
    /\ Head(guiQueue).type = "procedure"
    /\ guiQueue' = Tail(guiQueue)
    /\ UNCHANGED <<gotoEnabled, keysDown>>
    /\ manager' = ManagerQueue(manager, Head(guiQueue).arg)
    /\ buttons' = [buttons EXCEPT !.abort = TRUE]
    /\ UNCHANGED <<flagVars, pipeline, producerVars, starterVars, stageVars,
                   coordVars, gpc, pretest_worker, orphans, envVars, histVars>>

\* the slot of the starter thread's finished signal: MainWindow._enable_inputs
GuiEnableInputs ==
    /\ gpc = "idle"
    /\ guiQueue # <<>>
    /\ Head(guiQueue).type = "finished"
    /\ guiQueue' = Tail(guiQueue)
    /\ buttons' = [start |-> TRUE, abort |-> FALSE, abort_all |-> FALSE]
    /\ gotoEnabled' = Devices
    /\ UNCHANGED keysDown
    /\ UNCHANGED <<flagVars, pipeline, producerVars, starterVars, stageVars,
                   coordVars, gpc, workerVars, envVars, histVars>>

\* the manager learns that its worker ended.  A full test that ran to its
\* end: finished -> MainWindow.experiment_finished, and the next queued one
\* starts.  An aborted one: abort_returned -> MainWindow.resume.
GuiWorkerDone ==
    /\ gpc = "idle"
    /\ guiQueue # <<>>
    /\ Head(guiQueue).type = "worker_done"
    /\ guiQueue' = Tail(guiQueue)
    /\ UNCHANGED <<gotoEnabled, keysDown>>
    /\ IF manager.wst = "finished"
       THEN /\ has_no_measurement' = TRUE
            /\ manager' = ManagerNext(ManagerCleanUp(manager))
            /\ UNCHANGED buttons
       ELSE IF manager.queue # <<>>
       THEN /\ manager' = ManagerNext(ManagerCleanUp(manager))
            /\ UNCHANGED <<has_no_measurement, buttons>>
       ELSE /\ manager' = ManagerCleanUp(manager)
            /\ buttons' = [buttons EXCEPT !.abort = FALSE]
            /\ has_no_measurement' = TRUE
    /\ UNCHANGED <<event_abort, producer_done, starter_done,
                   current_device_passed_pretest, pipeline, producerVars,
                   starterVars, stageVars, coordVars, gpc, pretest_worker,
                   orphans, envVars, histVars>>

Gui ==
    \/ StartScan
    \/ AbortAllStart
    \/ AbortAllTestEmpty
    \/ AbortAllTestDone
    \/ AbortAllGet
    \/ AbortAllEnd
    \/ AbortCurrent
    \/ EscapeKey
    \/ GuiQueueExperiment
    \/ GuiEnableInputs
    \/ GuiWorkerDone

(***************************************************************************)
(* The program.                                                            *)
(***************************************************************************)
Next ==
    \/ Producer
    \/ Starter
    \/ Screening
    \/ Stage
    \/ FullTestEnds
    \/ Gui

Spec == Init /\ [][Next]_vars

(***************************************************************************)
(* The coordinate methods of StageStack on their own: one call of          *)
(* coordinates_cleanup, coords_boudary_check or calc_dev_coordinates on    *)
(* positions, calibration points and movement vectors of bounded sets.     *)
(***************************************************************************)
\* a position that is <<c, f>> on axis a and zero elsewhere
OneAxis(a, c, f) == [n \in 1..3 |-> IF n = a THEN <<c, f>> ELSE <<0, 0>>]

\* positions with few steps and many microsteps of either sign on one axis
CleanupProbes ==
    {OneAxis(a, c, f) : a \in 1..3, c \in -MaxCoarse..MaxCoarse,
                        f \in -MaxFine..MaxFine}

\* positions at and next to the boundaries of the axes
EdgeXY == {-XYLimit - 1, -XYLimit, 0, XYLimit, XYLimit + 1}
EdgeZ == {-1, 0, ZLimit, ZLimit + 1}
BoundaryProbes ==
    {<<<<x, 0>>, <<y, 0>>, <<z, 0>>>> : x \in EdgeXY, y \in EdgeXY, z \in EdgeZ}

\* calibrations whose dev_00 was captured near the origin: get_position
\* gives the steps and, in uPosition, up to 255 microsteps of either sign
ProbeCalibrations ==
    {[InitCalibration EXCEPT !.dev_00 = OneAxis(a, c, f)] :
        a \in 1..3, c \in -MaxCoarse..MaxCoarse,
        f \in -(Microsteps - 1)..(Microsteps - 1)}

\* pairs of a horizontal and a vertical movement vector
ProbeDeltas ==
    {<<InitDelta, InitDelta>>,
     <<OneAxis(1, 0, 0), OneAxis(1, 0, 0)>>,
     <<<<<<1, 3>>, <<-1, -3>>, <<0, 200>>>>, <<<<-2, -100>>, <<3, 0>>, <<1, 1>>>>>>}

CoordsInit ==
    /\ InitProgram({<<1, 1, 1, 1>>})
    /\ motorsOk
    /\ \/ /\ coordsArg \in CleanupProbes \cup BoundaryProbes
          /\ calibration = InitCalibration
          /\ coordinates_delta_hor = InitDelta
          /\ coordinates_delta_vert = InitDelta
       \/ /\ coordsArg = coordinates_center
          /\ calibration \in ProbeCalibrations
          /\ \E d \in ProbeDeltas : /\ coordinates_delta_hor = d[1]
                                    /\ coordinates_delta_vert = d[2]
    /\ automovement_safe_height = calc_new_safe_height(calibration)
    /\ outcome = NoOutcome

\* coordinates_cleanup(coords): the list is changed in place
CoordinatesCleanup ==
    /\ outcome = NoOutcome
    /\ coordsArg' = coordinates_cleanup(coordsArg)
    /\ outcome' = [op |-> "cleaned", arg |-> <<>>]
    /\ UNCHANGED <<flagVars, pipeline, producerVars, starterVars, stageVars,
                   calibration, coordinates_delta_hor, coordinates_delta_vert,
                   automovement_safe_height, guiVars, workerVars, envVars,
                   histVars>>

\* coords_boudary_check(coords): raises or returns
BoundaryCheck ==
    /\ outcome = NoOutcome
    /\ outcome' = [op |-> IF coords_boudary_check(coordsArg) THEN "raised"
                                                             ELSE "checked",
                   arg |-> <<>>]
    /\ UNCHANGED <<flagVars, pipeline, producerVars, starterVars, stageVars,
                   calibration, coordinates_delta_hor, coordinates_delta_vert,
                   automovement_safe_height, coordsArg, guiVars, workerVars,
                   envVars, histVars>>

\* calc_dev_coordinates(chipcol, chiprow, devcol, devrow): returns the
\* target or raises in its boundary check
CalcDevCoordinates ==
    /\ outcome = NoOutcome
    /\ \E chipcol, chiprow, devcol, devrow \in 0..1 :
          LET t == calc_dev_coordinates(calibration, coordinates_delta_hor,
                                        coordinates_delta_vert,
                                        chipcol, chiprow, devcol, devrow)
          IN  IF coords_boudary_check(t)
              THEN /\ outcome' = [op |-> "calc_raised",
                                  arg |-> <<chipcol, chiprow, devcol, devrow>>]
                   /\ UNCHANGED coordsArg
              ELSE /\ outcome' = [op |-> "calc",
                                  arg |-> <<chipcol, chiprow, devcol, devrow>>]
                   /\ coordsArg' = t
    /\ UNCHANGED <<flagVars, pipeline, producerVars, starterVars, stageVars,
                   calibration, coordinates_delta_hor, coordinates_delta_vert,
                   automovement_safe_height, guiVars, workerVars, envVars,
                   histVars>>

CoordsNext ==
    \/ CoordinatesCleanup
    \/ BoundaryCheck
    \/ CalcDevCoordinates

SpecCoords == CoordsInit /\ [][CoordsNext]_vars

(***************************************************************************)
(* The movement vectors between devices, on their own: the producer calls  *)
(* calc_coordinates_delta_hor and then calc_coordinates_delta_vert with    *)
(* the numbers the user entered; the IntegerParameters of the procedure    *)
(* have no minimum, so a number may be zero.                               *)
(***************************************************************************)
DeltaGrids ==
    (0..MaxDeltaChips) \X (0..MaxDeltaChips) \X (0..MaxDeltaDevs) \X (0..MaxDeltaDevs)

DeltaInit ==
    /\ InitProgram(DeltaGrids)
    /\ calibration \in IF motorsOk THEN {InitCalibration, WideCalibration}
                               ELSE {InitCalibration}
    /\ coordinates_delta_hor = InitDelta
    /\ coordinates_delta_vert = InitDelta
    /\ automovement_safe_height = calc_new_safe_height(calibration)
    /\ coordsArg = coordinates_center
    /\ outcome = NoOutcome

\* calc_coordinates_delta_hor(chipcols, devcols): stores the vector or ends
\* with ZeroDivisionError
CalcCoordinatesDeltaHor ==
    /\ outcome = NoOutcome
    /\ IF delta_raises(grid[1], grid[3])
       THEN /\ outcome' = [op |-> "delta_hor_raised", arg |-> <<grid[1], grid[3]>>]
            /\ UNCHANGED coordinates_delta_hor
       ELSE /\ outcome' = [op |-> "delta_hor", arg |-> <<grid[1], grid[3]>>]
            /\ coordinates_delta_hor' =
                   calc_coordinates_delta_hor(calibration, grid[1], grid[3])
    /\ UNCHANGED <<flagVars, pipeline, producerVars, starterVars, stageVars,
                   calibration, coordinates_delta_vert,
                   automovement_safe_height, coordsArg, guiVars, workerVars,
                   envVars, histVars>>

\* calc_coordinates_delta_vert(chiprows, devrows), called after the
\* horizontal vector is stored
CalcCoordinatesDeltaVert ==
    /\ outcome.op = "delta_hor"
    /\ IF delta_raises(grid[2], grid[4])
       THEN /\ outcome' = [op |-> "delta_vert_raised", arg |-> <<grid[2], grid[4]>>]
            /\ UNCHANGED coordinates_delta_vert
       ELSE /\ outcome' = [op |-> "delta_vert", arg |-> <<grid[2], grid[4]>>]
            /\ coordinates_delta_vert' =
                   calc_coordinates_delta_vert(calibration, grid[2], grid[4])
    /\ UNCHANGED <<flagVars, pipeline, producerVars, starterVars, stageVars,
                   calibration, coordinates_delta_hor,
                   automovement_safe_height, coordsArg, guiVars, workerVars,
                   envVars, histVars>>

DeltaNext ==
    \/ CalcCoordinatesDeltaHor
    \/ CalcCoordinatesDeltaVert

SpecDelta == DeltaInit /\ [][DeltaNext]_vars

(***************************************************************************)
(* The progress the starter emits, on its own: the devices of a grid are   *)
(* taken in the order the producer enqueues them and the progress signal   *)
(* of each is computed.                                                    *)
(***************************************************************************)
ProgressGrids ==
    {g \in (1..MaxProgChips) \X (1..MaxProgChips) \X (1..MaxProgCols)
               \X (1..MaxProgRows) : TRUE}

ProgressInit ==
    /\ InitProgram(ProgressGrids)
    /\ ~motorsOk
    /\ calibration = InitCalibration
    /\ coordinates_delta_hor = InitDelta
    /\ coordinates_delta_vert = InitDelta
    /\ automovement_safe_height = calc_new_safe_height(calibration)
    /\ coordsArg = coordinates_center
    /\ outcome = NoOutcome

\* the indices of the device that follows procdir in the grid
DeviceAfter(d) ==
    IF d = NoProc THEN <<0, 0, 0, 0>>
    ELSE NextLoop(grid, <<d.chipcols, d.chiprows, d.devcols, d.devrows>>)

\* the end of one turn of the loop of starter for the next device:
\* signals.progress.emit(int(progress_total*100), int(progress_current_chip*100))
EmitProgress ==
    /\ DeviceAfter(procdir) # <<>>
    /\ procdir' = MakeProcdir(grid, DeviceAfter(procdir), 1)
    /\ progress' = ProgressOf(procdir')
    /\ UNCHANGED <<flagVars, pipeline, producerVars, spc, stageVars, coordVars,
                   guiVars, workerVars, envVars, histVars>>

ProgressNext == EmitProgress

SpecProgress == ProgressInit /\ [][ProgressNext]_vars

(***************************************************************************)
(* Manual control of the stages: the keys of eventFilter, the goto and     *)
(* capture buttons and quit in the GUI thread, and the slots of StageStack *)
(* they call in the stage thread.  No scan is started.                     *)
(***************************************************************************)
Directions == {"north", "east", "south", "west", "up", "down"}

\* the bit of _movement_flag that move and stop change for a direction
DirectionBit ==
    [north |-> 8, east |-> 4, south |-> 2, west |-> 1, up |-> 64, down |-> 32]

Opposite ==
    [north |-> "south", east |-> "west", south |-> "north", west |-> "east",
     up |-> "down", down |-> "up"]

\* the axis move and stop command for a direction
AxisOf ==
    [north |-> "y", east |-> "x", south |-> "y", west |-> "x",
     up |-> "z", down |-> "z"]

\* flag & bit of Python, for a bit that is a power of two
HasBit(flag, bit) == (flag \div bit) % 2 = 1

\* _coordinates_load
coordinates_load == <<<<0, 0>>, <<-14500, 0>>, <<500, 0>>>>

\* the positions read_stage_position finds at a capture: below the lowest
\* safe height, and below and above the 20000 steps of clearance
CapturePositions ==
    {<<<<0, 0>>, <<0, 0>>, <<100, 0>>>>, <<<<0, 0>>, <<0, 0>>, <<4000, 0>>>>,
     <<<<0, 0>>, <<0, 0>>, <<30000, 0>>>>}

\* three calibration points captured with motors high above the clearance
HighCalibration ==
    [dev_00 |-> <<<<-8000, 0>>, <<-10000, 0>>, <<30000, 0>>>>,
     dev_i0 |-> <<<<8000, 0>>, <<-11000, 0>>, <<31000, 0>>>>,
     dev_0j |-> <<<<-7500, 0>>, <<10000, 0>>, <<32000, 0>>>>]

\* the stored coordinates of a calibration point
StoredOf(cal, dev) ==
    IF dev = "00" THEN cal.dev_00 ELSE IF dev = "i0" THEN cal.dev_i0
                                                       ELSE cal.dev_0j

\* self._coordinates_dev_xx[n] = self.read_stage_position(stage), n = 0..2
Captured(cal, dev, pos) ==
    IF dev = "00" THEN [cal EXCEPT !.dev_00 = pos]
    ELSE IF dev = "i0" THEN [cal EXCEPT !.dev_i0 = pos]
    ELSE [cal EXCEPT !.dev_0j = pos]

\* the window after it is built, or after three points were captured with
\* motors (the goto buttons of the points and Start are enabled)
ManualInit ==
    /\ grid = <<1, 1, 1, 1>>
    /\ motorsOk \in BOOLEAN
    /\ event_abort = FALSE
    /\ producer_done = TRUE
    /\ starter_done = TRUE
    /\ current_device_passed_pretest = FALSE
    /\ has_no_measurement = TRUE
    /\ pipeline = <<>>
    /\ ppc = "idle" /\ ploop = <<0, 0, 0, 0>> /\ presult = "none"
    /\ spc = "idle" /\ procdir = NoProc /\ progress = <<0, 0>>
    /\ stpc = "idle" /\ stageQueue = <<>> /\ gotoCoords = coordinates_center
    /\ stage_not_moving = TRUE
    /\ stage_emergency_stop_call = FALSE
    /\ movement_flag = 0
    /\ axisMoving = [a \in Axes |-> FALSE]
    /\ zSafeMove = <<>>
    /\ \/ /\ calibration = InitCalibration
          /\ gotoEnabled = {}
       \/ /\ motorsOk
          /\ calibration = HighCalibration
          /\ gotoEnabled = Devices
    /\ buttons = [start |-> gotoEnabled = Devices, abort |-> FALSE,
                  abort_all |-> FALSE]
    /\ coordinates_delta_hor = InitDelta
    /\ coordinates_delta_vert = InitDelta
    /\ automovement_safe_height = calc_new_safe_height(calibration)
    /\ coordsArg = coordinates_center
    /\ outcome = NoOutcome
    /\ gpc = "idle" /\ guiQueue = <<>> /\ keysDown = {}
    /\ pretest_worker = NoWorker /\ orphans = {}
    /\ manager = IdleManager
    /\ scanNo = 0 /\ events = 0
    /\ produced = <<>>
    /\ passedWriter = NoProc /\ lastRead = NoRead
    /\ pendingAtAbort = {} /\ abortReturned = FALSE /\ abortMidGoto = FALSE

\* the window handles one more input of the user
MayInput == gpc = "idle" /\ events < MaxInputs

\* eventFilter, KeyPress of an arrow key, PgUp or PgDown (the first press
\* or an auto-repeat of a held key): move is emitted unless the flag read
\* in the GUI thread has the bit of the direction or of its opposite
KeyPressDirection ==
    /\ MayInput
    /\ events' = events + 1
    /\ \E k \in Directions :
          /\ keysDown' = keysDown \cup {k}
          /\ stageQueue' =
                IF /\ ~HasBit(movement_flag, DirectionBit[k])
                   /\ ~HasBit(movement_flag, DirectionBit[Opposite[k]])
                THEN Append(stageQueue, StageCall("move", <<k>>))
                ELSE stageQueue
    /\ UNCHANGED <<flagVars, pipeline, producerVars, starterVars, stpc,
                   gotoCoords, stage_not_moving, stage_emergency_stop_call,
                   movement_flag, axisMoving, zSafeMove, coordVars, gpc,
                   guiQueue, buttons, gotoEnabled, workerVars, grid, motorsOk,
                   scanNo, histVars>>

\* eventFilter, KeyRelease of a held arrow key, PgUp or PgDown (not an
\* auto-repeat): stop is emitted unless the flag read in the GUI thread is
\* zero or has the bit of the opposite direction
KeyReleaseDirection ==
    /\ MayInput
    /\ events' = events + 1
    /\ \E k \in keysDown \cap Directions :
          /\ keysDown' = keysDown \ {k}
          /\ stageQueue' =
                IF /\ ~HasBit(movement_flag, DirectionBit[Opposite[k]])
                   /\ movement_flag # 0
                THEN Append(stageQueue, StageCall("stop", <<k>>))
                ELSE stageQueue
    /\ UNCHANGED <<flagVars, pipeline, producerVars, starterVars, stpc,
                   gotoCoords, stage_not_moving, stage_emergency_stop_call,
                   movement_flag, axisMoving, zSafeMove, coordVars, gpc,
                   guiQueue, buttons, gotoEnabled, workerVars, grid, motorsOk,
                   scanNo, histVars>>

\* eventFilter, KeyPress of Shift: sig_stage_speed_change.emit(1)
ShiftPress ==
    /\ MayInput
    /\ "shift" \notin keysDown
    /\ events' = events + 1
    /\ keysDown' = keysDown \cup {"shift"}
    /\ stageQueue' = Append(stageQueue, StageCall("speed", <<1>>))
    /\ UNCHANGED <<flagVars, pipeline, producerVars, starterVars, stpc,
                   gotoCoords, stage_not_moving, stage_emergency_stop_call,
                   movement_flag, axisMoving, zSafeMove, coordVars, gpc,
                   guiQueue, buttons, gotoEnabled, workerVars, grid, motorsOk,
                   scanNo, histVars>>

\* eventFilter, KeyRelease of Shift: sig_stage_speed_change.emit(-1)
ShiftRelease ==
    /\ MayInput
    /\ "shift" \in keysDown
    /\ events' = events + 1
    /\ keysDown' = keysDown \ {"shift"}
    /\ stageQueue' = Append(stageQueue, StageCall("speed", <<-1>>))
    /\ UNCHANGED <<flagVars, pipeline, producerVars, starterVars, stpc,
                   gotoCoords, stage_not_moving, stage_emergency_stop_call,
                   movement_flag, axisMoving, zSafeMove, coordVars, gpc,
                   guiQueue, buttons, gotoEnabled, workerVars, grid, motorsOk,
                   scanNo, histVars>>

\* eventFilter, KeyPress of Escape: stage_emergency_stop_call.set();
\* sleep(0.1); sig_stage_emergency_stop.emit()
EscapePress ==
    /\ MayInput
    /\ events' = events + 1
    /\ stage_emergency_stop_call' = TRUE
    /\ stageQueue' = Append(stageQueue, StageCall("estop", coordinates_center))
    /\ UNCHANGED <<flagVars, pipeline, producerVars, starterVars, stpc,
                   gotoCoords, stage_not_moving, movement_flag, axisMoving,
                   zSafeMove, coordVars, guiVars, workerVars, grid, motorsOk,
                   scanNo, histVars>>

\* a click on a goto button: sig_stage_moveTo_command.emit of the centre,
\* the load position or the stored coordinates of a captured point
GotoClick ==
    /\ MayInput
    /\ events' = events + 1
    /\ \E c \in {coordinates_center, coordinates_load}
                  \cup {StoredOf(calibration, dev) : dev \in gotoEnabled} :
          stageQueue' = Append(stageQueue, StageCall("goto", c))
    /\ UNCHANGED <<flagVars, pipeline, producerVars, starterVars, stpc,
                   gotoCoords, stage_not_moving, stage_emergency_stop_call,
                   movement_flag, axisMoving, zSafeMove, coordVars, guiVars,
                   workerVars, grid, motorsOk, scanNo, histVars>>

\* a click on a capture button: sig_stage_capture_command.emit(device, self)
CaptureClick ==
    /\ MayInput
    /\ events' = events + 1
    /\ \E dev \in Devices :
          stageQueue' = Append(stageQueue, StageCall("capture", <<dev>>))
    /\ UNCHANGED <<flagVars, pipeline, producerVars, starterVars, stpc,
                   gotoCoords, stage_not_moving, stage_emergency_stop_call,
                   movement_flag, axisMoving, zSafeMove, coordVars, guiVars,
                   workerVars, grid, motorsOk, scanNo, histVars>>

\* quit, the slot of aboutToQuit, up to goto_coords: abort_all() with no
\* scan running (the Queue is empty and producer_done is set)
QuitAbortAll ==
    /\ gpc = "idle"
    /\ event_abort' = TRUE
    /\ stageQueue' = Append(stageQueue, StageCall("estop", coordinates_center))
    /\ pretest_worker' = WorkerStop(pretest_worker)
    /\ current_device_passed_pretest' = FALSE
    /\ manager' = ManagerAbort(manager)
    /\ has_no_measurement' = TRUE
    /\ gpc' = "quit"
    /\ UNCHANGED <<producer_done, starter_done, pipeline, producerVars,
                   starterVars, stpc, gotoCoords, stage_not_moving,
                   stage_emergency_stop_call, movement_flag, axisMoving,
                   zSafeMove, coordVars, guiQueue, buttons, gotoEnabled,
                   keysDown, orphans, envVars, histVars>>

\* quit calls self.stages.goto_coords(self.stages._coordinates_center) in
\* the GUI thread: stage_not_moving.clear(); speed_up(); with motors
\* command_move(stage_z, safe height)
QuitGotoStart ==
    /\ gpc = "quit"
    /\ stage_not_moving' = FALSE
    /\ movement_flag' = speed_up(movement_flag)
    /\ IF motorsOk
       THEN /\ axisMoving' = [axisMoving EXCEPT !["z"] = TRUE]
            /\ zSafeMove' = <<automovement_safe_height>>
            /\ gpc' = "q_safe"
       ELSE /\ UNCHANGED <<axisMoving, zSafeMove>>
            /\ gpc' = "q_finish"
    /\ UNCHANGED <<flagVars, pipeline, producerVars, starterVars, stpc,
                   stageQueue, gotoCoords, stage_emergency_stop_call,
                   coordVars, guiQueue, buttons, gotoEnabled, keysDown,
                   workerVars, envVars, histVars>>

\* _interruptable_wait_for_stop returns in the GUI thread: the emergency
\* stop call is set, or the axes of the phase are seen with speed zero
QuitWaitEnds(phase, stopped, seen) ==
    /\ gpc = phase
    /\ gpc' = seen
    /\ IF stage_emergency_stop_call
       THEN UNCHANGED <<axisMoving, zSafeMove>>
       ELSE /\ axisMoving' = [a \in Axes |->
                                 IF a \in stopped THEN FALSE ELSE axisMoving[a]]
            /\ zSafeMove' = IF "z" \in stopped THEN <<>> ELSE zSafeMove
    /\ UNCHANGED <<flagVars, pipeline, producerVars, starterVars, stpc,
                   stageQueue, gotoCoords, stage_not_moving,
                   stage_emergency_stop_call, movement_flag, coordVars,
                   guiQueue, buttons, gotoEnabled, keysDown, workerVars,
                   envVars, histVars>>

\* after the wait: on an emergency stop call slow_down(); return False and
\* quit closes the window, else the axes of the next phase are commanded
QuitPhaseEnds(seen, next, started) ==
    /\ gpc = seen
    /\ IF stage_emergency_stop_call
       THEN /\ movement_flag' = slow_down(movement_flag)
            /\ gpc' = "closed"
            /\ UNCHANGED <<axisMoving, zSafeMove>>
       ELSE /\ axisMoving' = [a \in Axes |->
                                 IF a \in started THEN TRUE ELSE axisMoving[a]]
            /\ zSafeMove' = IF "z" \in started THEN <<>> ELSE zSafeMove
            /\ gpc' = next
            /\ UNCHANGED movement_flag
    /\ UNCHANGED <<flagVars, pipeline, producerVars, starterVars, stpc,
                   stageQueue, gotoCoords, stage_not_moving,
                   stage_emergency_stop_call, coordVars, guiQueue, buttons,
                   gotoEnabled, keysDown, workerVars, envVars, histVars>>

\* the end of goto_coords in the GUI thread: slow_down(); sleep(1);
\* stage_not_moving.set(); then quit closes the window
QuitGotoFinish ==
    /\ gpc = "q_finish"
    /\ movement_flag' = slow_down(movement_flag)
    /\ stage_not_moving' = TRUE
    /\ gpc' = "closed"
    /\ UNCHANGED <<flagVars, pipeline, producerVars, starterVars, stpc,
                   stageQueue, gotoCoords, stage_emergency_stop_call,
                   axisMoving, zSafeMove, coordVars, guiQueue, buttons,
                   gotoEnabled, keysDown, workerVars, envVars, histVars>>

\* the phases of the goto_coords that quit executes
QuitGotoPhases ==
    {"q_safe", "q_safe_seen", "q_horiz", "q_horiz_seen", "q_final",
     "q_final_seen", "q_finish"}

\* StageStack.move(direction), a slot in the stage thread
StageMove ==
    /\ stpc = "idle"
    /\ stageQueue # <<>>
    /\ Head(stageQueue).cmd = "move"
    /\ stageQueue' = Tail(stageQueue)
    /\ stage_not_moving' = FALSE
    /\ LET direction == Head(stageQueue).coords[1]
       IN  /\ movement_flag' = movement_flag + DirectionBit[direction]
           /\ IF motorsOk
              THEN /\ axisMoving' = [axisMoving EXCEPT ![AxisOf[direction]] = TRUE]
                   /\ zSafeMove' = IF AxisOf[direction] = "z" THEN <<>>
                                                             ELSE zSafeMove
              ELSE UNCHANGED <<axisMoving, zSafeMove>>
    /\ UNCHANGED <<flagVars, pipeline, producerVars, starterVars, stpc,
                   gotoCoords, stage_emergency_stop_call, coordVars, guiVars,
                   workerVars, envVars, histVars>>

\* StageStack.stop(direction), a slot in the stage thread: with motors
\* command_sstp and command_wait_for_stop on the axis
StageStop ==
    /\ stpc = "idle"
    /\ stageQueue # <<>>
    /\ Head(stageQueue).cmd = "stop"
    /\ stageQueue' = Tail(stageQueue)
    /\ stage_not_moving' = TRUE
    /\ LET direction == Head(stageQueue).coords[1]
       IN  /\ movement_flag' = movement_flag - DirectionBit[direction]
           /\ IF motorsOk
              THEN /\ axisMoving' = [axisMoving EXCEPT ![AxisOf[direction]] = FALSE]
                   /\ zSafeMove' = IF AxisOf[direction] = "z" THEN <<>>
                                                             ELSE zSafeMove
              ELSE UNCHANGED <<axisMoving, zSafeMove>>
    /\ UNCHANGED <<flagVars, pipeline, producerVars, starterVars, stpc,
                   gotoCoords, stage_emergency_stop_call, coordVars, guiVars,
                   workerVars, envVars, histVars>>

\* StageStack.initialise_speed_change(switch), a slot in the stage thread
StageSpeedChange ==
    /\ stpc = "idle"
    /\ stageQueue # <<>>
    /\ Head(stageQueue).cmd = "speed"
    /\ stageQueue' = Tail(stageQueue)
    /\ movement_flag' = IF Head(stageQueue).coords[1] > 0
                        THEN speed_up(movement_flag)
                        ELSE slow_down(movement_flag)
    /\ UNCHANGED <<flagVars, pipeline, producerVars, starterVars, stpc,
                   gotoCoords, stage_not_moving, stage_emergency_stop_call,
                   axisMoving, zSafeMove, coordVars, guiVars, workerVars,
                   envVars, histVars>>

\* StageStack.capture_coords(device, calling_window), a slot in the stage
\* thread, up to the first write of _calc_new_safe_height: with motors the
\* position is stored; the goto button of the point is enabled, and Start
\* when the goto buttons of the other points are; the safe height becomes
\* the minimum of the three heights
StageCapture ==
    /\ stpc = "idle"
    /\ stageQueue # <<>>
    /\ Head(stageQueue).cmd = "capture"
    /\ stageQueue' = Tail(stageQueue)
    /\ LET dev == Head(stageQueue).coords[1]
       IN  /\ IF motorsOk
              THEN \E pos \in CapturePositions :
                       calibration' = Captured(calibration, dev, pos)
              ELSE calibration' = calibration
           /\ gotoEnabled' = gotoEnabled \cup {dev}
           /\ buttons' = IF Devices \ {dev} \subseteq gotoEnabled
                         THEN [buttons EXCEPT !.start = TRUE]
                         ELSE buttons
    /\ automovement_safe_height' =
           Min2(calibration'.dev_00[3][1],
                Min2(calibration'.dev_i0[3][1], calibration'.dev_0j[3][1]))
    /\ stpc' = "c_min"
    /\ UNCHANGED <<flagVars, pipeline, producerVars, starterVars, gotoCoords,
                   stage_not_moving, stage_emergency_stop_call, movement_flag,
                   axisMoving, zSafeMove, coordinates_delta_hor,
                   coordinates_delta_vert, coordsArg, outcome, gpc, guiQueue,
                   keysDown, workerVars, envVars, histVars>>

\* self._automovement_safe_height -= 20000
StageCaptureClearance ==
    /\ stpc = "c_min"
    /\ automovement_safe_height' = automovement_safe_height - SafeClearance
    /\ stpc' = "c_floor"
    /\ UNCHANGED <<flagVars, pipeline, producerVars, starterVars, stageQueue,
                   gotoCoords, stage_not_moving, stage_emergency_stop_call,
                   movement_flag, axisMoving, zSafeMove, calibration,
                   coordinates_delta_hor, coordinates_delta_vert, coordsArg,
                   outcome, guiVars, workerVars, envVars, histVars>>

\* if self._automovement_safe_height < 500: ... = 500
StageCaptureFloor ==
    /\ stpc = "c_floor"
    /\ automovement_safe_height' =
           IF automovement_safe_height < MinSafeHeight
           THEN MinSafeHeight ELSE automovement_safe_height
    /\ stpc' = "idle"
    /\ UNCHANGED <<flagVars, pipeline, producerVars, starterVars, stageQueue,
                   gotoCoords, stage_not_moving, stage_emergency_stop_call,
                   movement_flag, axisMoving, zSafeMove, calibration,
                   coordinates_delta_hor, coordinates_delta_vert, coordsArg,
                   outcome, guiVars, workerVars, envVars, histVars>>

ManualNext ==
    \/ KeyPressDirection
    \/ KeyReleaseDirection
    \/ ShiftPress
    \/ ShiftRelease
    \/ EscapePress
    \/ GotoClick
    \/ CaptureClick
    \/ QuitAbortAll
    \/ QuitGotoStart
    \/ QuitWaitEnds("q_safe", {"z"}, "q_safe_seen")
    \/ QuitPhaseEnds("q_safe_seen", "q_horiz", {"x", "y"})
    \/ QuitWaitEnds("q_horiz", {"x", "y"}, "q_horiz_seen")
    \/ QuitPhaseEnds("q_horiz_seen", "q_final", {"z"})
    \/ QuitWaitEnds("q_final", {"z"}, "q_final_seen")
    \/ QuitPhaseEnds("q_final_seen", "q_finish", {})
    \/ QuitGotoFinish
    \/ StageMove
    \/ StageStop
    \/ StageSpeedChange
    \/ StageCapture
    \/ StageCaptureClearance
    \/ StageCaptureFloor
    \/ StageGotoStart
    \/ StageGotoSafeReached
    \/ StageGotoHorizReached
    \/ StageGotoFinalReached
    \/ StageGotoFinish
    \/ StageEmergencyStop
    \/ StageEmergencyStopEnd

SpecManual == ManualInit /\ [][ManualNext]_vars

(***************************************************************************)
(* Properties.                                                             *)
(***************************************************************************)
\* the full tests submitted and neither ended nor asked to stop: procedure
\* signals the window has not handled yet, full tests the manager has
\* queued, and the one it runs
FullTestsInFlight ==
    Cardinality({i \in 1..Len(guiQueue) : guiQueue[i].type = "procedure"})
    + Len(manager.queue)
    + (IF manager.wst = "running" /\ ~manager.stop THEN 1 ELSE 0)

\* C1: at most one full test is in flight at any time; a second one is never
\* submitted before the first has completed.
C1_AtMostOneFullTest == FullTestsInFlight <= 1

\* C2: the full test of a device is submitted only after the screening of
\* that same device has ended and passed, also when the join on the
\* screening thread returns by timeout: at the submission the screening
\* thread of the device is dead and the pass flag was written by it.
C2_SubmitAfterOwnScreening ==
    lastRead # NoRead =>
        /\ lastRead.screening = "dead"
        /\ lastRead.writer = lastRead.dev
        /\ lastRead.value

\* C3: without an abort the starter always gets to set starter_done; it is
\* never left blocked on the empty queue of a producer that has finished
\* (stated for the scans without any disturbance).
C3_StarterNeverStuckOnEmptyQueue ==
    ~(/\ spc = "get"
      /\ pipeline = <<>>
      /\ producer_done /\ ppc = "idle"
      /\ ~event_abort /\ events = 0)

\* C4: a producer or a starter that ends with an uncaught exception has
\* still set its done flag.
C4_DoneFlagSetOnFailure ==
    /\ ppc = "dead" => producer_done
    /\ spc = "dead" => starter_done

\* the number of devices of a grid, and the loop variables of its i-th
\* device (from 0) with the chip column outermost and the device row
\* innermost
GridSize(g) == g[1] * g[2] * g[3] * g[4]
NthDevice(g, i) ==
    <<i \div (g[2] * g[3] * g[4]), (i \div (g[3] * g[4])) % g[2],
      (i \div g[4]) % g[3], i % g[4]>>

\* C5: the producer enqueues the descriptors of the grid in nested order,
\* chip column outermost, then chip row, device column and device row
\* innermost, no index tuple twice, and all GridSize of them when it ends
\* without having seen an abort.
C5_ProducerEnumeratesGrid ==
    /\ \A i \in 1..Len(produced) :
          <<produced[i].chipcols, produced[i].chiprows,
            produced[i].devcols, produced[i].devrows>> = NthDevice(grid, i - 1)
    /\ \A i, j \in 1..Len(produced) : i # j => produced[i] # produced[j]
    /\ presult = "True" => Len(produced) = GridSize(grid)

\* a scan of a grid with several chip rows and device rows was produced in full
C5_Witness ==
    /\ presult = "True"
    /\ grid[2] > 1 /\ grid[4] > 1
    /\ Len(produced) = GridSize(grid)

\* C6: the seed of a descriptor is 1000 * chipCol + 100 * chipRow +
\* 10 * devCol + devRow; the grid 2, 1, 2, 1 gives the seeds 0, 10, 1000, 1010.
C6_SeedOfDescriptor ==
    /\ \A i \in 1..Len(produced) :
          produced[i].seed = 1000 * NthDevice(grid, i - 1)[1]
                             + 100 * NthDevice(grid, i - 1)[2]
                             + 10 * NthDevice(grid, i - 1)[3]
                             + NthDevice(grid, i - 1)[4]
    /\ grid = <<2, 1, 2, 1>> /\ presult = "True" =>
          [i \in 1..Len(produced) |-> produced[i].seed] = <<0, 10, 1000, 1010>>

\* the grid 2, 1, 2, 1 was produced in full
C6_Witness ==
    /\ grid = <<2, 1, 2, 1>>
    /\ presult = "True"
    /\ Len(produced) = 4

\* C7: the queue never holds more than 10 descriptors, and a put on the
\* full queue does not complete before a get has made room.
C7_QueueBounded ==
    /\ [](Len(pipeline) <= PipelineMaxsize)
    /\ [][Len(produced') > Len(produced) => Len(pipeline) < PipelineMaxsize]_vars

\* the producer waits in put on the full queue
C7_Witness ==
    /\ ppc = "put"
    /\ Len(pipeline) = PipelineMaxsize

\* C8: when abort_all is called while goto_coords is moving the stage, the
\* move returns without commanding any of its remaining phases.
C8_AbortStopsGoto ==
    [][abortMidGoto /\ stpc' \in GotoPhases => stpc' = stpc]_vars

\* the starter works on a descriptor that was in the queue when abort_all
\* was called: its folder is made and the move to it is emitted
StarterProcessesPending ==
    /\ spc \in {"wait_move", "pretest", "join", "read_pass", "wait_hnm"}
    /\ procdir \in pendingAtAbort

\* C9: when abort_all returns the queue is empty and producer_done is set,
\* and no descriptor that was in the queue at the abort request is processed.
C9_AbortDrainsQueue ==
    /\ [](~StarterProcessesPending)
    /\ [][~abortReturned /\ abortReturned' =>
             pipeline' = <<>> /\ producer_done']_vars

\* C10: after abort_all has returned the pass flag is clear and
\* _has_no_measurement is set, and they stay so until the next scan starts.
C10_FlagsAfterAbort ==
    abortReturned => ~current_device_passed_pretest /\ has_no_measurement

\* C11: the producer ends with producer_done set; it returns True after it
\* has enqueued every descriptor of the grid, and it returns False only
\* when it has enqueued fewer than chipcols * chiprows * devcols * devrows.
C11_ProducerResult ==
    /\ presult # "none" => producer_done
    /\ presult = "True" => Len(produced) = GridSize(grid)
    /\ presult = "False" => Len(produced) < GridSize(grid)

\* C12: a scan that ends without abort ends with the move to the center, and
\* starter_done is set only when that move is over; once event_abort is set
\* the starter emits no move any more.
C12_CenterMoveUnlessAbort ==
    /\ [](starter_done /\ scanNo >= 1 /\ ~event_abort =>
             /\ gotoCoords = coordinates_center
             /\ stpc = "idle"
             /\ \A i \in 1..Len(stageQueue) : stageQueue[i].cmd # "goto")
    /\ [][event_abort /\ Len(stageQueue') > Len(stageQueue) =>
             stageQueue'[Len(stageQueue')].cmd # "goto"]_vars

\* a position inside the boundaries of the three axes
InEnvelope(c) ==
    /\ c[1][1] \in -14600..14600
    /\ c[2][1] \in -14600..14600
    /\ c[3][1] \in 0..156000

\* C13: every target of a move the starter has asked the stage for, pending
\* or being executed, lies inside the boundaries |x| <= 14600, |y| <= 14600,
\* 0 <= z <= 156000.
C13_MoveTargetsInEnvelope ==
    /\ InEnvelope(gotoCoords)
    /\ \A i \in 1..Len(stageQueue) :
          stageQueue[i].cmd = "goto" => InEnvelope(stageQueue[i].coords)

\* the starter has popped a device whose target lies outside the boundaries:
\* no move was emitted for it
C13_Witness ==
    /\ procdir # NoProc
    /\ ~InEnvelope(TargetOf(procdir))
    /\ spc = "dead"
    /\ \A i \in 1..Len(stageQueue) : stageQueue[i].cmd # "goto"

\* C14: coords_boudary_check raises exactly when |x| > 14600 or |y| > 14600
\* or z < 0 or z > 156000: it raises for x = 14601, z = -1 and z = 156001
\* and returns for x = 14600, z = 0 and z = 156000.
C14_BoundaryCheckExact ==
    outcome.op \in {"raised", "checked"} =>
        /\ outcome.op = "raised" <=> ~InEnvelope(coordsArg)
        /\ coordsArg \in {OneAxis(1, 14601, 0), OneAxis(3, -1, 0),
                          OneAxis(3, 156001, 0)} => outcome.op = "raised"
        /\ coordsArg \in {OneAxis(1, 14600, 0), OneAxis(3, 0, 0),
                          OneAxis(3, 156000, 0)} => outcome.op = "checked"

\* the check has accepted x = 14600 with z = 156000
C14_Witness ==
    /\ outcome.op = "checked"
    /\ coordsArg = <<<<14600, 0>>, <<0, 0>>, <<156000, 0>>>>

\* C15: after coordinates_cleanup the microsteps of every axis lie in
\* 0..255; the sign is carried by the steps alone.
C15_CleanupFineInRange ==
    outcome.op = "cleaned" => \A n \in 1..3 : coordsArg[n][2] \in 0..255

\* C16: coordinates_cleanup is idempotent: cleaning up a cleaned-up position
\* leaves it as it is.
C16_CleanupIdempotent ==
    outcome.op = "cleaned" => coordinates_cleanup(coordsArg) = coordsArg

\* C17: for dev_00 inside the boundaries, calc_dev_coordinates(0, 0, 0, 0)
\* returns dev_00 itself, steps and microsteps of all three axes, whatever
\* the movement vectors are.
C17_FirstDeviceIsDev00 ==
    InEnvelope(calibration.dev_00) /\ outcome.arg = <<0, 0, 0, 0>> =>
        /\ outcome.op = "calc"
        /\ coordsArg = calibration.dev_00

\* C18: a device whose target lies outside the boundaries is skipped: when
\* the starter takes its descriptor from the Queue it queues no move for it
\* and goes on with the scan, it does not end there.
C18_OutOfBoundsDeviceSkipped ==
    [][spc = "get" /\ spc' # "get" /\ ~InEnvelope(TargetOf(procdir')) =>
           /\ stageQueue' = stageQueue
           /\ spc' # "dead"]_vars

\* C19: when the join on the screening thread returns after its 3600 s with
\* the thread still running (and no abort), the device is given up: the
\* thread is told to stop and the starter does not go on to the read of the
\* pass flag, which submits the full test of the device when the flag is set.
C19_JoinTimeoutAbortsDevice ==
    [][spc = "join" /\ spc' # "join" /\ pretest_worker.st # "dead"
         /\ ~event_abort =>
           /\ pretest_worker'.stop
           /\ spc' # "read_pass"]_vars

\* C20: with a grid dimension below 1 a scan is refused before the producer
\* does anything: the data folder is not created, nothing is put into the
\* Queue and no move is requested.
C20_EmptyGridRefused ==
    (\E i \in 1..4 : grid[i] <= 0) =>
        /\ ppc \in {"idle", "start"}
        /\ pipeline = <<>>
        /\ \A i \in 1..Len(stageQueue) : stageQueue[i].cmd # "goto"

\* the integer percentages of the exact progress of the device d of the
\* grid g: progressWithinChip = (devCol * devRows + devRow + 1) /
\* (devCols * devRows), progressTotal = (chipCol * chipRows + chipRow +
\* progressWithinChip) / (chipCols * chipRows)
ExactProgress(g, d) ==
    LET k == d.devcols * g[4] + d.devrows + 1
    IN  <<(100 * ((d.chipcols * g[2] + d.chiprows) * g[3] * g[4] + k))
              \div (g[1] * g[2] * g[3] * g[4]),
          (100 * k) \div (g[3] * g[4])>>

\* C21: the progress emitted for a device is the pair of the floors of 100
\* times its exact wafer progress and chip progress; both lie in 0..100, the
\* wafer progress never decreases from one device to the next, and the last
\* device of the grid gives (100, 100).
C21_ProgressOfDevice ==
    /\ [](procdir # NoProc =>
            /\ progress = ExactProgress(grid, procdir)
            /\ progress[1] \in 0..100 /\ progress[2] \in 0..100
            /\ DeviceAfter(procdir) = <<>> => progress = <<100, 100>>)
    /\ [][progress'[1] >= progress[1]]_vars

\* the positions of the starter behind its loop
BehindLoop == {"after", "final_wait", "set_done", "idle"}

\* a step of a starter that is behind its loop, in the same scan: it stays
\* there, starts no screening thread and emits no procedure signal
StaysBehindLoop ==
    spc \in BehindLoop /\ scanNo' = scanNo =>
        /\ spc' \in BehindLoop
        /\ pretest_worker'.dev = pretest_worker.dev
        /\ (pretest_worker'.st = "running" => pretest_worker.st = "running")
        /\ (Len(guiQueue') > Len(guiQueue) =>
               guiQueue'[Len(guiQueue')].type # "procedure")

\* C24: when event_abort is set at the check of the starter after the move
\* to a device, the starter leaves its loop there; and once it has left the
\* loop it starts no screening thread and submits no full test until the
\* next scan is started.
C24_AbortAfterMoveEndsLoop ==
    /\ [][spc = "wait_move" /\ spc' # spc /\ event_abort => spc' = "after"]_vars
    /\ [][StaysBehindLoop]_vars

\* the starter has left its loop at the check after the move to a device
\* whose screening was never started
C24_Witness ==
    /\ spc = "after"
    /\ event_abort
    /\ procdir # NoProc
    /\ pretest_worker.dev # procdir

\* C25: in a scan without abort or failure the descriptors leave the Queue
\* in the order the producer has put them, each one once: the Queue holds
\* the descriptors produced last, the starter works on the one before them,
\* and when starter_done is set the producer is done, the Queue is empty and
\* all chipcols * chiprows * devcols * devrows descriptors were taken.
C25_EachDescriptorOnceInOrder ==
    events = 0 =>
        LET taken == Len(produced) - Len(pipeline)
        IN  /\ taken >= 0
            /\ pipeline = SubSeq(produced, taken + 1, Len(produced))
            /\ (procdir # NoProc => taken >= 1 /\ procdir = produced[taken])
            /\ (taken >= 1 /\ spc # "idle" => procdir = produced[taken])
            /\ (starter_done /\ scanNo >= 1 =>
                   /\ producer_done
                   /\ pipeline = <<>>
                   /\ taken = GridSize(grid))

\* a scan of the long grid has ended undisturbed
C25_Witness ==
    /\ events = 0
    /\ scanNo = 1
    /\ starter_done
    /\ GridSize(grid) = LongRows
    /\ Len(produced) = LongRows

\* the vector the claim describes: the difference of two calibration points
\* divided by den and normalized when den is positive, else zero
DeltaOf(dev00, far, den) ==
    IF den > 0
    THEN coordinates_cleanup([n \in 1..3 |->
             <<TruncDiv(far[n][1] - dev00[n][1], den),
               TruncDiv(far[n][2] - dev00[n][2], den)>>])
    ELSE [n \in 1..3 |-> <<0, 0>>]

\* C29: for every calibration and all numbers of chips and devices the
\* horizontal vector is (dev_i0 - dev_00) / (10*(chipcols-1) + (devcols-1)),
\* normalized, when that denominator is positive and the zero vector when it
\* is not, and no call divides by a zero or negative denominator; the
\* vertical vector likewise from dev_0j with chiprows and devrows.
C29_DeltaOfCalibration ==
    /\ outcome.op \notin {"delta_hor_raised", "delta_vert_raised"}
    /\ outcome.op \in {"delta_hor", "delta_vert"} =>
          coordinates_delta_hor =
              DeltaOf(calibration.dev_00, calibration.dev_i0,
                      10 * (grid[1] - 1) + (grid[3] - 1))
    /\ outcome.op = "delta_vert" =>
          coordinates_delta_vert =
              DeltaOf(calibration.dev_00, calibration.dev_0j,
                      10 * (grid[2] - 1) + (grid[4] - 1))

\* C27: for every sequence of jog key presses and releases and every
\* delivery of the queued move and stop calls, _movement_flag never has the
\* bits of both directions of one axis (north and south, east and west, up
\* and down).
C27_NoOppositeDirections ==
    \A k \in Directions :
        ~(/\ HasBit(movement_flag, DirectionBit[k])
          /\ HasBit(movement_flag, DirectionBit[Opposite[k]]))

\* a step in which speed_up() is executed: the slot of Shift pressed, or
\* the start of goto_coords in the stage thread or in quit
SpeedUpStep ==
    \/ /\ stpc = "idle" /\ stageQueue # <<>> /\ stageQueue' = Tail(stageQueue)
       /\ \/ Head(stageQueue).cmd = "goto"
          \/ Head(stageQueue).cmd = "speed" /\ Head(stageQueue).coords[1] > 0
    \/ gpc = "quit" /\ gpc' # "quit"

\* a step in which slow_down() is executed by the slot of Shift released
SlowDownStep ==
    /\ stpc = "idle" /\ stageQueue # <<>> /\ stageQueue' = Tail(stageQueue)
    /\ Head(stageQueue).cmd = "speed" /\ Head(stageQueue).coords[1] < 0

IdempotentSpeedStep ==
    /\ SpeedUpStep /\ HasBit(movement_flag, SpeedBit)
          => movement_flag' = movement_flag
    /\ SlowDownStep /\ ~HasBit(movement_flag, SpeedBit)
          => movement_flag' = movement_flag

\* C28: speed switching is idempotent: speed_up() when the speed bit is set
\* (Shift held and a goto_coords) and slow_down() when it is not set leave
\* _movement_flag, the speed bit and the direction bits, as it is.
C28_SpeedSwitchIdempotent == [][IdempotentSpeedStep]_vars

\* C26: all commands to an axis go through the stage thread: at no time,
\* quit included, does the GUI thread execute a goto_coords that commands
\* the axes while the stage thread executes a goto_coords or an emergency
\* stop.
C26_AxesCommandedByStageThread ==
    motorsOk => ~(/\ gpc \in QuitGotoPhases \ {"q_finish"}
                  /\ stpc \in GotoPhases \cup {"e_stop"})

\* a step in which a goto_coords issues its command_move of stage_x and
\* stage_y, or its final command_move of stage_z
IssuesHorizontal ==
    \/ stpc = "g_safe" /\ stpc' = "g_horiz"
    \/ gpc = "q_safe_seen" /\ gpc' = "q_horiz"
IssuesFinal ==
    \/ stpc = "g_horiz" /\ stpc' = "g_final"
    \/ gpc = "q_horiz_seen" /\ gpc' = "q_final"

GotoOrderStep ==
    /\ stpc' = "g_safe" /\ stpc # "g_safe" => stpc = "idle" /\ zSafeMove' # <<>>
    /\ stpc' = "g_horiz" /\ stpc # "g_horiz" => stpc = "g_safe"
    /\ stpc' = "g_final" /\ stpc # "g_final" => stpc = "g_horiz"
    /\ gpc' = "q_safe" /\ gpc # "q_safe" => gpc = "quit" /\ zSafeMove' # <<>>
    /\ gpc' = "q_horiz" /\ gpc # "q_horiz" => gpc = "q_safe_seen"
    /\ gpc' = "q_final" /\ gpc # "q_final" => gpc = "q_horiz_seen"
    /\ IssuesHorizontal => zSafeMove' = <<>>
    /\ IssuesFinal /\ stpc' = "g_final" => ~axisMoving["x"]' /\ ~axisMoving["y"]'

\* C22: every goto_coords with motors first commands z to the safe height,
\* commands x and y only after it saw z stopped, and commands z to the
\* target only after it saw x and y stopped; x and y are never commanded
\* while z travels to the safe height.
C22_GotoPhaseOrder == [][GotoOrderStep]_vars

\* a step in which a goto_coords commands z to the safe height
IssuesSafeHeight ==
    \/ stpc = "idle" /\ stpc' = "g_safe"
    \/ gpc = "quit" /\ gpc' = "q_safe"

SafeHeightStep ==
    IssuesSafeHeight =>
        /\ zSafeMove' = <<calc_new_safe_height(calibration)>>
        /\ zSafeMove'[1] >= MinSafeHeight

\* C30: after any sequence of captures the safe height that phase 1 of
\* goto_coords uses is max(500, min(dev_00.z, dev_i0.z, dev_0j.z) - 20000)
\* of the stored calibration points, and never below 500.
C30_SafeHeightOfCalibration == [][SafeHeightStep]_vars

InterruptedGotoStep ==
    /\ stpc \in GotoPhases /\ stage_emergency_stop_call =>
          /\ stage_emergency_stop_call'
          /\ stpc' # stpc =>
                /\ stpc' = "idle"
                /\ movement_flag' = slow_down(movement_flag)
                /\ \A a \in Axes : axisMoving'[a] => axisMoving[a]
    /\ gpc \in QuitGotoPhases /\ stage_emergency_stop_call' =>
          stage_emergency_stop_call

\* C23: when stage_emergency_stop_call is set while goto_coords waits in a
\* phase, goto_coords returns False without the commands of the later
\* phases, and the call stays set until it has returned; while quit
\* executes its goto_coords, the call is not raised.
C23_EmergencyStopEndsGoto == [][InterruptedGotoStep]_vars

\* a goto_coords of the stage thread has returned False in its first phase:
\* z still travels to the safe height and the emergency stop is pending
C23_Witness ==
    /\ stpc = "idle" /\ gpc = "idle"
    /\ stage_emergency_stop_call
    /\ ~stage_not_moving
    /\ zSafeMove # <<>>
    /\ ~HasBit(movement_flag, SpeedBit)
    /\ stageQueue # <<>> /\ Head(stageQueue).cmd = "estop"

\* the position a pair <<steps, microsteps>> represents, in microsteps
Represented(p) == Microsteps * p[1] + p[2]

PreservingCleanupStep ==
    outcome.op = "none" /\ outcome'.op = "cleaned" =>
        \A n \in 1..3 : Represented(coordsArg'[n]) = Represented(coordsArg[n])

\* C38: coordinates_cleanup preserves the position: on every axis
\* 256 * steps + microsteps is the same before and after, also when steps
\* and microsteps have opposite signs.
C38_CleanupPreservesPosition == [][PreservingCleanupStep]_vars

\* two positions represent the same point on every axis
SamePosition(a, b) == \A n \in 1..3 : Represented(a[n]) = Represented(b[n])

\* C39: in a grid with more than one column the target of the last device
\* of the first row, calc_dev_coordinates(chipcols-1, 0, devcols-1, 0), is
\* the position of dev_i0, and with more than one row the target of the
\* last device of the first column is the position of dev_0j: no step is
\* lost in the movement vectors.
C39_TransformReproducesCalibration ==
    procdir # NoProc /\ ppc # "start" =>
        /\ ( /\ grid[1] > 1 \/ grid[3] > 1
             /\ procdir.chipcols = grid[1] - 1 /\ procdir.devcols = grid[3] - 1
             /\ procdir.chiprows = 0 /\ procdir.devrows = 0 )
           => SamePosition(TargetOf(procdir), calibration.dev_i0)
        /\ ( /\ grid[2] > 1 \/ grid[4] > 1
             /\ procdir.chiprows = grid[2] - 1 /\ procdir.devrows = grid[4] - 1
             /\ procdir.chipcols = 0 /\ procdir.devcols = 0 )
           => SamePosition(TargetOf(procdir), calibration.dev_0j)

\* C31: for calibration points inside the boundaries the safe height, at
\* which x and y travel, is clear of every calibrated device: it is not
\* greater than the height of dev_00, dev_i0 or dev_0j.
C31_SafeHeightClearOfDevices ==
    stpc \notin {"c_min", "c_floor"} /\ (\A dev \in Devices : InEnvelope(StoredOf(calibration, dev))) =>
        \A dev \in Devices :
            automovement_safe_height <= StoredOf(calibration, dev)[3][1]

FatalMakedirsStep ==
    /\ ppc = "start" /\ ppc' = "dead" =>
          /\ pipeline' = pipeline /\ produced' = <<>>
          /\ coordinates_delta_hor' = coordinates_delta_hor
          /\ coordinates_delta_vert' = coordinates_delta_vert
    /\ ppc = "dead" /\ scanNo' = scanNo =>
          /\ ppc' = "dead" /\ produced' = <<>>
          /\ Len(pipeline') <= Len(pipeline)
          /\ coordinates_delta_hor' = coordinates_delta_hor
          /\ coordinates_delta_vert' = coordinates_delta_vert
    /\ Len(produced') > Len(produced) => ppc = "put"

\* C32: the producer creates the folder of the scan before it enqueues the
\* first descriptor; when os.makedirs fails it enqueues no descriptor and
\* computes no movement vectors in that scan.
C32_MakedirsFailureIsFatal == [][FatalMakedirsStep]_vars

\* os.makedirs has failed in the first scan: nothing was enqueued and the
\* movement vectors are the ones StageStack started with
C32_Witness ==
    /\ ppc = "dead" /\ scanNo = 1
    /\ produced = <<>> /\ pipeline = <<>>
    /\ coordinates_delta_hor = InitDelta /\ coordinates_delta_vert = InitDelta

\* without motors no axis is commanded and the stage thread never waits for
\* an axis
SimulatedStage ==
    ~motorsOk =>
        /\ \A a \in Axes : ~axisMoving[a]
        /\ zSafeMove = <<>>
        /\ stpc \notin GotoPhases \cup {"e_stop"}

\* without motors a goto_coords that was started ends with
\* stage_not_moving set
SimulatedGotoStep ==
    /\ ~motorsOk /\ stpc = "idle" /\ stpc' # "idle"
          /\ Head(stageQueue).cmd = "goto" => stpc' = "g_finish"
    /\ ~motorsOk /\ stpc = "g_finish" /\ stpc' # stpc =>
          stpc' = "idle" /\ stage_not_moving'

\* C33: when the axes are not all identified, move, stop, emergency stop
\* and goto_coords command no axis, and every goto_coords still ends and
\* sets stage_not_moving, so that a scan of several devices runs to
\* starter_done as it does with motors.
C33_SimulatedModeRunsScan == []SimulatedStage /\ [][SimulatedGotoStep]_vars

\* a scan of MaxDevices devices has run to starter_done without motors
C33_Witness ==
    /\ ~motorsOk /\ scanNo = 1 /\ events = 0
    /\ starter_done /\ spc = "idle" /\ stage_not_moving /\ stpc = "idle"
    /\ GridSize(grid) = MaxDevices /\ Len(produced) = MaxDevices
    /\ pipeline = <<>> /\ stageQueue = <<>>


\* C34: the coordinator starts the screening of a device only after the
\* moveTo for that device has completed its three phases.  The starter
\* clears 'stage not moving' before it emits the moveTo and starts the
\* screening once the event is set, unless the scan is aborted, so the claim
\* says: while the starter waits for a move in a scan that is not aborted
\* the event is set only by the last step of the goto_coords to the target
\* of that device, and when the screening starts no goto_coords is queued or
\* executing
ReleasedByMoveStep ==
    spc = "wait_move" /\ ~event_abort /\ ~stage_not_moving /\ stage_not_moving' =>
        /\ stpc = "g_finish" /\ stpc' = "idle"
        /\ gotoCoords = TargetOf(procdir)
MoveOver ==
    /\ stpc \notin GotoPhases \cup {"g_finish"}
    /\ \A n \in 1..Len(stageQueue) : stageQueue[n].cmd # "goto"
ScreeningAfterMove == spc = "pretest" => MoveOver
C34_ScreeningOnlyAfterCompletedMove ==
    []ScreeningAfterMove /\ [][ReleasedByMoveStep]_vars


\* C37: no phase of goto_coords commands an axis while the emergency stop
\* call is set: neither the move of z to the safe height, nor the move of
\* x and y, nor the move of z to the target
GotoCommandStep ==
    IssuesSafeHeight \/ IssuesHorizontal \/ IssuesFinal =>
        ~stage_emergency_stop_call
C37_NoGotoCommandUnderEmergencyStop == [][GotoCommandStep]_vars


FlagBits == {DirectionBit[k] : k \in Directions} \cup {SpeedBit}
OtherBitsKept(bit) ==
    \A other \in FlagBits \ {bit} :
        HasBit(movement_flag', other) = HasBit(movement_flag, other)
StageSlotStep(cmd) ==
    /\ stpc = "idle" /\ stageQueue # <<>> /\ stageQueue' = Tail(stageQueue)
    /\ Head(stageQueue).cmd = cmd
FlagBitsStep ==
    /\ \A k \in Directions :
          /\ StageSlotStep("move") /\ Head(stageQueue).coords = <<k>> =>
                HasBit(movement_flag', DirectionBit[k])
                   /\ OtherBitsKept(DirectionBit[k])
          /\ StageSlotStep("stop") /\ Head(stageQueue).coords = <<k>> =>
                ~HasBit(movement_flag', DirectionBit[k])
                   /\ OtherBitsKept(DirectionBit[k])
    /\ SpeedUpStep =>
          HasBit(movement_flag', SpeedBit) /\ OtherBitsKept(SpeedBit)
    /\ SlowDownStep \/ (stpc \in GotoPhases \cup {"g_finish"} /\ stpc' = "idle") =>
          ~HasBit(movement_flag', SpeedBit) /\ OtherBitsKept(SpeedBit)
    /\ StageSlotStep("estop") => movement_flag' = 0
FlagInRange == movement_flag \in 0..127

\* C40: after any sequence of move, stop, speed_up, slow_down, goto_coords
\* and emergency stop operations that the key event filter can cause,
\* _movement_flag is within 0..127, each operation changes only its own bit
\* (move sets the bit of its direction and stop clears it, speed_up sets
\* the speed bit and slow_down clears it), and the emergency stop clears
\* all bits
C40_FlagWordWellFormed == []FlagInRange /\ [][FlagBitsStep]_vars


\* C35: across consecutive scans every descriptor taken from the queue
\* during a scan was put there by the producer of that scan (its folder is
\* the one of the scan), and the queue is empty whenever a scan is started
ScanIsolationStep ==
    /\ scanNo' = scanNo + 1 => pipeline = <<>>
    /\ pipeline # <<>> /\ pipeline' = Tail(pipeline) =>
          Head(pipeline).folder = scanNo
C35_ScansDoNotShareDescriptors == [][ScanIsolationStep]_vars


\* abort_all is blocked in self.pipeline.get(): the queue is empty and the
\* producer thread has ended, so that nothing will be put any more (a new
\* producer is started only by the GUI thread, which is the one blocked)
AbortAllBlocked ==
    gpc = "drain_get" /\ pipeline = <<>> /\ ppc \in {"idle", "dead"}

\* C36: every call of abort_all ends: its loop 'while not pipeline.empty()
\* or not producer_done.is_set(): pipeline.get()' is never blocked for ever
\* in get(), whatever the interleaving with the gets of the starter and
\* with the last put and producer_done.set() of the producer
C36_AbortAllNeverBlocks == ~AbortAllBlocked

====
